---- MODULE Spec2Model ----
(***************************************************************************)
(* A model of the turn-based dungeon crawl of src/src/main.rs: the Entity  *)
(* Store, combat and leveling arithmetic, the AI controller, the item      *)
(* effect system, the turn scheduler of play_game and the save/load codec. *)
(*                                                                         *)
(* Conventions.  Option<T> is a sequence of length 0 (None) or 1 (Some).   *)
(* Sequences are 1-based, so the player's index PLAYER is 1 where the      *)
(* source has 0.  Distances are compared through their squares, which is   *)
(* exact for the integer coordinates the program uses.  A message of the   *)
(* log is the pair <<text, color>> with the formatted arguments of the     *)
(* text left out.  The grid is a scaled-down MAP_WIDTH x MAP_HEIGHT grid.  *)
(***************************************************************************)
EXTENDS Integers, Sequences, FiniteSets, TLC

VARIABLES
    objects,        \* Vec<Object>: the Entity Store, player first
    inventory,      \* game.inventory
    map,            \* game.map: [cell -> Tile]
    log,            \* game.log
    dungeon_level,  \* game.dungeon_level
    fov,            \* tcod.fov: the set of cells currently flagged in-FOV
    previous_player_position,   \* local of play_game
    pc,             \* position of the program: menu / top / keys / ai / done / fn
    ai_id,          \* loop variable `id` of the AI pass of play_game
    ai_len,         \* objects.len() evaluated when the AI pass starts
    player_action,  \* what handle_keys returned in this iteration
    savegame,       \* the file "savegame": Option<document>
    steps,          \* number of keys handled and games started so far (bounded by MaxSteps)
    hist,           \* history record: what the last operation did
    generation      \* locals of make_map and place_objects while a level is generated

vars == <<objects, inventory, map, log, dungeon_level, fov,
          previous_player_position, pc, ai_id, ai_len, player_action,
          savegame, steps, hist, generation>>

(***************************************************************************)
(* Bounds of the model and constants of the program.                       *)
(***************************************************************************)
MAP_WIDTH == 8
MAP_HEIGHT == 5
MaxSteps == 2

TORCH_RADIUS == 10
PLAYER == 1
MSG_HEIGHT == 6
HEAL_AMOUNT == 40
LEVEL_UP_BASE == 200
LEVEL_UP_FACTOR == 150
LIGHTNING_DAMAGE == 40
LIGHTNING_RANGE == 5
CONFUSE_RANGE == 8
CONFUSE_NUM_TURNS == 10
FIREBALL_RADIUS == 3
FIREBALL_DAMAGE == 25
INVENTORY_MAX == 26

(***************************************************************************)
(* Small helpers.                                                          *)
(***************************************************************************)
None == <<>>
Some(v) == <<v>>
IsSome(o) == Len(o) = 1
Abs(n) == IF n < 0 THEN -n ELSE n
Sgn(n) == IF n < 0 THEN -1 ELSE IF n > 0 THEN 1 ELSE 0
Max(a, b) == IF a >= b THEN a ELSE b
Min(a, b) == IF a <= b THEN a ELSE b

RECURSIVE SumSeq(_)
SumSeq(s) == IF s = <<>> THEN 0 ELSE Head(s) + SumSeq(Tail(s))

\* Vec::remove(i): the elements after i shift down by one.
RemoveAt(s, i) == [k \in 1..(Len(s) - 1) |-> IF k < i THEN s[k] ELSE s[k + 1]]

\* Vec::swap_remove(i): the last element takes the place of element i.
SwapRemove(s, i) ==
    [k \in 1..(Len(s) - 1) |-> IF k = i THEN s[Len(s)] ELSE s[k]]

\* A value bound to a name: With(v, LAMBDA x : e) is e with x standing for v.
With(v, F(_)) == F(v)

\* The index of the first element satisfying Test, as an Option.
FirstIndex(s, Test(_)) ==
    IF \E k \in 1..Len(s) : Test(s[k])
    THEN Some(CHOOSE k \in 1..Len(s) :
                  Test(s[k]) /\ \A j \in 1..(k - 1) : ~Test(s[j]))
    ELSE None

(***************************************************************************)
(* Data model.                                                             *)
(***************************************************************************)
Cells == (0..(MAP_WIDTH - 1)) \X (0..(MAP_HEIGHT - 1))

TileEmpty == [blocked |-> FALSE, block_sight |-> FALSE, explored |-> FALSE]
TileWall == [blocked |-> TRUE, block_sight |-> TRUE, explored |-> FALSE]

AiBasic == [tag |-> "Basic"]
AiConfused(prev, n) == [tag |-> "Confused", previous_ai |-> prev, num_turns |-> n]

NewFighter(hp, max_hp, defense, power, on_death, xp) ==
    [hp |-> hp, base_max_hp |-> max_hp, base_defense |-> defense,
     base_power |-> power, on_death |-> on_death, xp |-> xp]

NewEquipment(slot, equipped, hp_bonus, power_bonus, defense_bonus) ==
    [slot |-> slot, equipped |-> equipped, max_hp_bonus |-> hp_bonus,
     power_bonus |-> power_bonus, defense_bonus |-> defense_bonus]

\* Object::new
ObjectNew(x, y, char, name, color, blocks) ==
    [x |-> x, y |-> y, char |-> char, color |-> color, name |-> name,
     blocks |-> blocks, alive |-> FALSE, fighter |-> None, ai |-> None,
     item |-> None, always_visible |-> FALSE, level |-> 1, equipment |-> None]

Pos(o) == <<o.x, o.y>>

\* Object::distance_to and Object::distance, squared.
DistSq(x1, y1, x2, y2) == (x2 - x1) * (x2 - x1) + (y2 - y1) * (y2 - y1)

\* MessageLog::add with the test for a full log off by one.
LogAdd_evicts_late(lg, text, color) ==
    IF Len(lg) > MSG_HEIGHT
    THEN Append(Tail(lg), <<text, color>>)
    ELSE Append(lg, <<text, color>>)

\* MessageLog::add
LogAdd(lg, text, color) ==
    IF Len(lg) = MSG_HEIGHT
    THEN Append(Tail(lg), <<text, color>>)
    ELSE Append(lg, <<text, color>>)

(***************************************************************************)
(* The world a function of the program works on: the Entity Store and the  *)
(* Game aggregate, with the bookkeeping of the model (oid/iid: a stable    *)
(* identity for every entity of the store and of the inventory; deaths:    *)
(* how often the death callback ran for each identity).                    *)
(***************************************************************************)
WAdd(w, text, color) == [w EXCEPT !.log = LogAdd(@, text, color)]

\* Object::get_all_equipped
get_all_equipped(o, inv) ==
    IF o.name = "player"
    THEN LET eq == SelectSeq(inv, LAMBDA it :
                       IsSome(it.equipment) /\ it.equipment[1].equipped)
         IN [k \in 1..Len(eq) |-> eq[k].equipment[1]]
    ELSE <<>>

\* Object::power without the bonuses of the equipment.
power_base_only(o, inv) ==
    IF IsSome(o.fighter) THEN o.fighter[1].base_power ELSE 0

\* Object::power
power(o, inv) ==
    LET base == IF IsSome(o.fighter) THEN o.fighter[1].base_power ELSE 0
        eq == get_all_equipped(o, inv)
    IN base + SumSeq([k \in 1..Len(eq) |-> eq[k].power_bonus])

\* Object::defense
defense(o, inv) ==
    LET base == IF IsSome(o.fighter) THEN o.fighter[1].base_defense ELSE 0
        eq == get_all_equipped(o, inv)
    IN base + SumSeq([k \in 1..Len(eq) |-> eq[k].defense_bonus])

\* Object::max_hp
max_hp(o, inv) ==
    LET base == IF IsSome(o.fighter) THEN o.fighter[1].base_max_hp ELSE 0
        eq == get_all_equipped(o, inv)
    IN base + SumSeq([k \in 1..Len(eq) |-> eq[k].max_hp_bonus])

\* format!("remains of {}", monster.name)
RemainsOf(name) ==
    IF name = "orc" THEN "remains of orc"
    ELSE IF name = "troll" THEN "remains of troll"
    ELSE "remains of remains"

\* player_death
player_death(w, i) ==
    LET w1 == WAdd(w, "You died!", "RED")
    IN [w1 EXCEPT !.objects[i].char = "%", !.objects[i].color = "DARK_RED"]

\* monster_death that leaves the monster its name.
monster_death_keeps_name(w, i) ==
    LET o == w.objects[i]
    IN [WAdd(w, "is dead! You gain experience points.", "ORANGE") EXCEPT
           !.objects[i] =
               [o EXCEPT !.char = "%", !.color = "DARK_RED", !.blocks = FALSE,
                         !.fighter = None, !.ai = None]]

\* monster_death that leaves the Fighter capability in place.
monster_death_keeps_fighter(w, i) ==
    LET o == w.objects[i]
    IN [WAdd(w, "is dead! You gain experience points.", "ORANGE") EXCEPT
           !.objects[i] =
               [o EXCEPT !.char = "%", !.color = "DARK_RED", !.blocks = FALSE,
                         !.ai = None, !.name = RemainsOf(o.name)]]

\* monster_death
monster_death(w, i) ==
    LET w1 == WAdd(w, "is dead! You gain experience points.", "ORANGE")
        o == w.objects[i]
    IN [w1 EXCEPT !.objects[i] =
            [o EXCEPT !.char = "%", !.color = "DARK_RED", !.blocks = FALSE,
                      !.fighter = None, !.ai = None,
                      !.name = RemainsOf(o.name)]]

\* DeathCallback::callback
callback(on_death, w, i) ==
    LET w1 == [w EXCEPT !.deaths[w.oid[i]] = @ + 1]
    IN IF on_death = "Player" THEN player_death(w1, i) ELSE monster_death(w1, i)

\* Object::take_damage: the world afterwards and the Option<i32> returned.
take_damage(w, i, damage) ==
    LET o == w.objects[i]
        f1 == IF IsSome(o.fighter) /\ damage > 0
              THEN Some([o.fighter[1] EXCEPT !.hp = @ - damage])
              ELSE o.fighter
        w1 == [w EXCEPT !.objects[i].fighter = f1]
    IN IF IsSome(f1) /\ f1[1].hp <= 0
       THEN [w |-> callback(f1[1].on_death,
                            [w1 EXCEPT !.objects[i].alive = FALSE], i),
             xp |-> Some(f1[1].xp)]
       ELSE [w |-> w1, xp |-> None]

\* Object::attack, for the attacker at index a and the target at index t.
attack(w, a, t) ==
    With(power(w.objects[a], w.inventory) - defense(w.objects[t], w.inventory),
         LAMBDA damage :
             IF damage > 0
             THEN With(take_damage(WAdd(w, "attacks for hit points.", "WHITE"),
                                   t, damage),
                       LAMBDA r :
                           IF IsSome(r.xp)
                           THEN [r.w EXCEPT !.objects[a].fighter[1].xp =
                                                @ + r.xp[1]]
                           ELSE r.w)
             ELSE WAdd(w, "attacks but it has no effect!", "WHITE"))

\* Object::heal without the clamp to max_hp.
heal_unclamped(w, i, amount) ==
    IF IsSome(w.objects[i].fighter)
    THEN [w EXCEPT !.objects[i].fighter[1].hp = @ + amount]
    ELSE w

\* Object::heal with the test fighter.hp > max_hp + 1.
heal_clamp_off_by_one(w, i, amount) ==
    LET m == max_hp(w.objects[i], w.inventory)
        o == w.objects[i]
    IN IF IsSome(o.fighter)
       THEN [w EXCEPT !.objects[i].fighter[1].hp = Min(@ + amount, m + 1)]
       ELSE w

\* Object::heal
heal(w, i, amount) ==
    LET m == max_hp(w.objects[i], w.inventory)
        o == w.objects[i]
    IN IF IsSome(o.fighter)
       THEN [w EXCEPT !.objects[i].fighter[1].hp = Min(@ + amount, m)]
       ELSE w

(***************************************************************************)
(* Visibility Field.  tcod's compute_fov(x, y, TORCH_RADIUS, light_walls,  *)
(* Basic) casts rays from the origin: a cell is in the field when it lies  *)
(* within the radius and no sight-blocking tile lies strictly between the  *)
(* origin and the cell on the ray to it (walls themselves are lit).        *)
(***************************************************************************)
RoundDiv(a, n) == (2 * a + n) \div (2 * n)

RayPoint(ox, oy, cx, cy, k, n) ==
    <<ox + RoundDiv(k * (cx - ox), n), oy + RoundDiv(k * (cy - oy), n)>>

compute_fov(m, ox, oy) ==
    {c \in Cells :
        /\ DistSq(ox, oy, c[1], c[2]) <= TORCH_RADIUS * TORCH_RADIUS
        /\ LET n == Max(Abs(c[1] - ox), Abs(c[2] - oy))
           IN \A k \in 1..(n - 1) :
                  ~m[RayPoint(ox, oy, c[1], c[2], k, n)].block_sight}

\* render_all that sets the explored flag of a cell to whether it is visible.
render_all_explored_is_visible(w, fov_recompute) ==
    LET f == IF fov_recompute
             THEN compute_fov(w.map, w.objects[PLAYER].x, w.objects[PLAYER].y)
             ELSE w.fov
    IN [w EXCEPT !.fov = f,
                 !.map = [c \in Cells |->
                             [w.map[c] EXCEPT !.explored = (c \in f)]]]

\* render_all: the part of it that changes state (the FOV recomputation and
\* the marking of every visible cell as explored).
render_all(w, fov_recompute) ==
    LET f == IF fov_recompute
             THEN compute_fov(w.map, w.objects[PLAYER].x, w.objects[PLAYER].y)
             ELSE w.fov
    IN [w EXCEPT !.fov = f,
                 !.map = [c \in Cells |->
                             IF c \in f THEN [w.map[c] EXCEPT !.explored = TRUE]
                             ELSE w.map[c]]]

(***************************************************************************)
(* Movement.                                                               *)
(***************************************************************************)
\* is_blocked
is_blocked(x, y, m, objs) ==
    \/ m[<<x, y>>].blocked
    \/ \E k \in 1..Len(objs) : objs[k].blocks /\ Pos(objs[k]) = <<x, y>>

\* move_by that tests the entities of the target cell and not its tile.
move_by_through_walls(w, id, dx, dy) ==
    LET x == w.objects[id].x
        y == w.objects[id].y
    IN IF ~\E k \in 1..Len(w.objects) :
              w.objects[k].blocks /\ Pos(w.objects[k]) = <<x + dx, y + dy>>
       THEN [w EXCEPT !.objects[id].x = x + dx, !.objects[id].y = y + dy]
       ELSE w

\* move_by
move_by(w, id, dx, dy) ==
    LET x == w.objects[id].x
        y == w.objects[id].y
    IN IF ~is_blocked(x + dx, y + dy, w.map, w.objects)
       THEN [w EXCEPT !.objects[id].x = x + dx, !.objects[id].y = y + dy]
       ELSE w

\* (d as f32 / distance).round() as i32 for distance = sqrt(dsq) > 0:
\* |d| / distance >= 0.5 exactly when 4 d^2 >= dsq.
StepToward(d, dsq) == IF 4 * d * d >= dsq THEN Sgn(d) ELSE 0

\* move_towards
move_towards(w, id, target_x, target_y) ==
    LET dx == target_x - w.objects[id].x
        dy == target_y - w.objects[id].y
        dsq == dx * dx + dy * dy
    IN move_by(w, id, StepToward(dx, dsq), StepToward(dy, dsq))

\* mut_two with the pair of the second branch in the order of the slices.
mut_two_slice_order(first_index, second_index, items) ==
    LET split_at_index == Max(first_index, second_index)
        first_slice == SubSeq(items, 1, split_at_index - 1)
        second_slice == SubSeq(items, split_at_index, Len(items))
    IN IF first_index = second_index
       THEN None
       ELSE IF first_index < second_index
            THEN Some(<<first_slice[first_index], second_slice[1]>>)
            ELSE Some(<<first_slice[second_index], second_slice[1]>>)

\* mut_two: None when the assertion that the two indices differ fails,
\* otherwise the pair it returns, taken from the two slices split_at_mut
\* makes of items.
mut_two(first_index, second_index, items) ==
    LET split_at_index == Max(first_index, second_index)
        first_slice == SubSeq(items, 1, split_at_index - 1)
        second_slice == SubSeq(items, split_at_index, Len(items))
    IN IF first_index = second_index
       THEN None
       ELSE IF first_index < second_index
            THEN Some(<<first_slice[first_index], second_slice[1]>>)
            ELSE Some(<<second_slice[1], first_slice[second_index]>>)

\* The places of a slice of objects, which mut_two hands out references to.
Places(objs) == [k \in 1..Len(objs) |-> k]

\* player_move_or_attack
player_move_or_attack(w, dx, dy) ==
    LET x == w.objects[PLAYER].x + dx
        y == w.objects[PLAYER].y + dy
        target_id == FirstIndex(w.objects,
                         LAMBDA o : IsSome(o.fighter) /\ Pos(o) = <<x, y>>)
    IN IF IsSome(target_id)
       THEN With(mut_two(PLAYER, target_id[1], Places(w.objects)),
                 LAMBDA refs :
                     IF IsSome(refs)
                     THEN attack(w, refs[1][1], refs[1][2])
                     ELSE [w EXCEPT !.panic = TRUE])
       ELSE move_by(w, PLAYER, dx, dy)

(***************************************************************************)
(* AI Controller.                                                          *)
(***************************************************************************)
\* ai_basic that attacks without looking at the player's hp.
ai_basic_attacks_the_dead(w, monster_id) ==
    LET mo == w.objects[monster_id]
        pl == w.objects[PLAYER]
        w1 == IF <<mo.x, mo.y>> \in w.fov
              THEN IF DistSq(mo.x, mo.y, pl.x, pl.y) >= 4
                   THEN move_towards(w, monster_id, pl.x, pl.y)
                   ELSE attack(w, monster_id, PLAYER)
              ELSE w
    IN [w |-> w1, ai |-> AiBasic]

\* ai_basic: the world afterwards and the Ai returned.
ai_basic(w, monster_id) ==
    LET mo == w.objects[monster_id]
        pl == w.objects[PLAYER]
        w1 == IF <<mo.x, mo.y>> \in w.fov
              THEN IF DistSq(mo.x, mo.y, pl.x, pl.y) >= 4
                   THEN move_towards(w, monster_id, pl.x, pl.y)
                   ELSE IF IsSome(pl.fighter) /\ pl.fighter[1].hp > 0
                        THEN With(mut_two(monster_id, PLAYER,
                                          Places(w.objects)),
                                  LAMBDA refs :
                                      IF IsSome(refs)
                                      THEN attack(w, refs[1][1], refs[1][2])
                                      ELSE [w EXCEPT !.panic = TRUE])
                        ELSE w
              ELSE w
    IN [w |-> w1, ai |-> AiBasic]

\* ai_confused that stays Confused with Basic as previous state.
ai_confused_forgets_previous(w, monster_id, previous_ai, num_turns, dx, dy) ==
    IF num_turns >= 0
    THEN [w |-> [move_by(w, monster_id, dx, dy) EXCEPT !.walked = TRUE],
          ai |-> AiConfused(AiBasic, num_turns - 1)]
    ELSE [w |-> WAdd(w, "is no longer confused!", "RED"),
          ai |-> previous_ai]

\* ai_confused that ends the confusion when no turns remain.
ai_confused_ends_at_zero(w, monster_id, previous_ai, num_turns, dx, dy) ==
    IF num_turns > 0
    THEN [w |-> [move_by(w, monster_id, dx, dy) EXCEPT !.walked = TRUE],
          ai |-> AiConfused(previous_ai, num_turns - 1)]
    ELSE [w |-> WAdd(w, "is no longer confused!", "RED"),
          ai |-> previous_ai]

\* ai_confused; dx and dy are the two random draws from -1..1.
ai_confused(w, monster_id, previous_ai, num_turns, dx, dy) ==
    IF num_turns >= 0
    THEN [w |-> [move_by(w, monster_id, dx, dy) EXCEPT !.walked = TRUE],
          ai |-> AiConfused(previous_ai, num_turns - 1)]
    ELSE [w |-> WAdd(w, "is no longer confused!", "RED"),
          ai |-> previous_ai]

\* ai_take_turn
ai_take_turn(w, monster_id, dx, dy) ==
    IF IsSome(w.objects[monster_id].ai)
    THEN LET ai == w.objects[monster_id].ai[1]
             w0 == [w EXCEPT !.objects[monster_id].ai = None]
         IN With(IF ai.tag = "Basic"
                 THEN ai_basic(w0, monster_id)
                 ELSE ai_confused(w0, monster_id, ai.previous_ai,
                                  ai.num_turns, dx, dy),
                 LAMBDA r : [r.w EXCEPT !.objects[monster_id].ai = Some(r.ai)])
    ELSE w

(***************************************************************************)
(* Item Effect System.                                                     *)
(***************************************************************************)
\* get_equipped_in_slot
get_equipped_in_slot(slot, inv) ==
    FirstIndex(inv, LAMBDA it :
        IsSome(it.equipment) /\ it.equipment[1].equipped
                             /\ it.equipment[1].slot = slot)

\* Object::equip, for the inventory item at index k.
equip(w, k) ==
    LET it == w.inventory[k]
    IN IF ~IsSome(it.item)
       THEN WAdd(w, "Can't equip because it's not an Item.", "RED")
       ELSE IF IsSome(it.equipment)
            THEN IF ~it.equipment[1].equipped
                 THEN WAdd([w EXCEPT !.inventory[k].equipment[1].equipped = TRUE],
                           "Equipped.", "LIGHT_GREEN")
                 ELSE w
            ELSE WAdd(w, "Can't equip because it's not an Equipment.", "RED")

\* Object::dequip, for an item record: the item and the log afterwards.
dequip_item(it, lg) ==
    IF ~IsSome(it.item)
    THEN [it |-> it,
          log |-> LogAdd(lg, "Can't dequip because it's not an Item.", "RED")]
    ELSE IF IsSome(it.equipment)
         THEN IF it.equipment[1].equipped
              THEN [it |-> [it EXCEPT !.equipment[1].equipped = FALSE],
                    log |-> LogAdd(lg, "Dequipped.", "LIGHT_YELLOW")]
              ELSE [it |-> it, log |-> lg]
         ELSE [it |-> it,
               log |-> LogAdd(lg, "Can't dequip because it's not an Equipment.",
                              "RED")]

\* Object::dequip, for the inventory item at index k.
dequip(w, k) ==
    With(dequip_item(w.inventory[k], w.log),
         LAMBDA r : [w EXCEPT !.inventory[k] = r.it, !.log = r.log])

\* pick_item_up with the test for a full inventory off by one.
pick_item_up_limit_off_by_one(w, object_id) ==
    IF Len(w.inventory) > INVENTORY_MAX
    THEN WAdd(w, "Your inventory is full, cannot pick up.", "RED")
    ELSE LET item == w.objects[object_id]
             w1 == WAdd([w EXCEPT !.objects = SwapRemove(@, object_id),
                                  !.oid = SwapRemove(@, object_id)],
                        "You picked up!", "GREEN")
             index == Len(w.inventory) + 1
             w2 == [w1 EXCEPT !.inventory = Append(@, item),
                              !.iid = Append(@, w.oid[object_id])]
         IN IF IsSome(item.equipment)
               /\ ~IsSome(get_equipped_in_slot(item.equipment[1].slot,
                                               w2.inventory))
            THEN equip(w2, index)
            ELSE w2

\* pick_item_up
pick_item_up(w, object_id) ==
    IF Len(w.inventory) >= INVENTORY_MAX
    THEN WAdd(w, "Your inventory is full, cannot pick up.", "RED")
    ELSE LET item == w.objects[object_id]
             w1 == WAdd([w EXCEPT !.objects = SwapRemove(@, object_id),
                                  !.oid = SwapRemove(@, object_id)],
                        "You picked up!", "GREEN")
             index == Len(w.inventory) + 1
             w2 == [w1 EXCEPT !.inventory = Append(@, item),
                              !.iid = Append(@, w.oid[object_id])]
         IN IF IsSome(item.equipment)
               /\ ~IsSome(get_equipped_in_slot(item.equipment[1].slot,
                                               w2.inventory))
            THEN equip(w2, index)
            ELSE w2

\* drop_item
drop_item(w, inventory_id) ==
    LET item0 == w.inventory[inventory_id]
    IN With(IF IsSome(item0.equipment)
            THEN dequip_item(item0, w.log)
            ELSE [it |-> item0, log |-> w.log],
            LAMBDA r :
                [w EXCEPT !.inventory = RemoveAt(@, inventory_id),
                          !.iid = RemoveAt(@, inventory_id),
                          !.log = LogAdd(r.log, "You dropped.", "YELLOW"),
                          !.objects = Append(@, [r.it EXCEPT
                                                    !.x = w.objects[PLAYER].x,
                                                    !.y = w.objects[PLAYER].y]),
                          !.oid = Append(@, w.iid[inventory_id])])

\* cast_heal
cast_heal(w) ==
    LET player == w.objects[PLAYER]
    IN IF IsSome(player.fighter)
       THEN IF player.fighter[1].hp = max_hp(player, w.inventory)
            THEN [w |-> WAdd(w, "You are already at full health", "RED"),
                  result |-> "Cancelled"]
            ELSE [w |-> heal(WAdd(w, "Your wounds start to feel better!",
                                  "LIGHT_VIOLET"), PLAYER, HEAL_AMOUNT),
                  result |-> "UsedUp"]
       ELSE [w |-> w, result |-> "Cancelled"]

\* closest_monster: the first of the visible monsters nearest to the player
\* among those nearer than max_range + 1.
closest_monster(w, max_range) ==
    LET pl == w.objects[PLAYER]
        Cand(id) == /\ id # PLAYER
                    /\ IsSome(w.objects[id].fighter)
                    /\ IsSome(w.objects[id].ai)
                    /\ Pos(w.objects[id]) \in w.fov
        D(id) == DistSq(pl.x, pl.y, w.objects[id].x, w.objects[id].y)
        In == {id \in 1..Len(w.objects) :
                  Cand(id) /\ D(id) < (max_range + 1) * (max_range + 1)}
    IN IF In = {} THEN None
       ELSE Some(CHOOSE id \in In :
                     \A j \in In : D(id) < D(j) \/ (D(id) = D(j) /\ id <= j))

\* cast_lightning
cast_lightning(w) ==
    With(closest_monster(w, LIGHTNING_RANGE),
         LAMBDA monster_id :
             IF IsSome(monster_id)
             THEN With(take_damage(
                           WAdd(w, "A lightning bolt strikes with a loud thunder!",
                                "LIGHT_BLUE"),
                           monster_id[1], LIGHTNING_DAMAGE),
                       LAMBDA r :
                           [w |-> IF IsSome(r.xp)
                                  THEN [r.w EXCEPT
                                           !.objects[PLAYER].fighter[1].xp =
                                               @ + r.xp[1]]
                                  ELSE r.w,
                            result |-> "UsedUp"])
             ELSE [w |-> WAdd(w, "No enemy is close enough to strike.", "RED"),
                   result |-> "Cancelled"])

\* target_tile: the tiles a left click can select (in FOV and in range);
\* max_range is an Option.
TargetTiles(w, max_range) ==
    {c \in Cells :
        /\ c \in w.fov
        /\ \/ ~IsSome(max_range)
           \/ DistSq(w.objects[PLAYER].x, w.objects[PLAYER].y, c[1], c[2])
                  <= max_range[1] * max_range[1]}

\* target_monster: the ids a targeting interaction can return (the first
\* Fighter other than the player on a selectable tile).
TargetMonsters(w, max_range) ==
    LET Hit(id, c) == /\ Pos(w.objects[id]) = c
                      /\ IsSome(w.objects[id].fighter)
                      /\ id # PLAYER
    IN {id \in 1..Len(w.objects) :
           \E c \in TargetTiles(w, max_range) :
               Hit(id, c) /\ \A j \in 1..(id - 1) : ~Hit(j, c)}

\* cast_confuse that always records Basic as the previous AI.
cast_confuse_forgets_ai(w, monster_id) ==
    With(render_all(
             WAdd(w, "Left-click an enemy to confuse it, or right-click to cancel.",
                  "LIGHT_CYAN"), FALSE),
         LAMBDA w1 :
             IF IsSome(monster_id)
             THEN [w |-> WAdd([w1 EXCEPT !.objects[monster_id[1]].ai =
                                  Some(AiConfused(AiBasic, CONFUSE_NUM_TURNS))],
                              "The eyes look vacant, as he starts to stumble around!",
                              "LIGHT_GREEN"),
                   result |-> "UsedUp"]
             ELSE [w |-> WAdd(w1, "No enemy is close enough to strike.", "RED"),
                   result |-> "Cancelled"])

\* cast_confuse; monster_id is what target_monster returned.
cast_confuse(w, monster_id) ==
    With(render_all(
             WAdd(w, "Left-click an enemy to confuse it, or right-click to cancel.",
                  "LIGHT_CYAN"), FALSE),
         LAMBDA w1 :
             IF IsSome(monster_id)
             THEN LET m == monster_id[1]
                      old_ai == IF IsSome(w1.objects[m].ai)
                                THEN w1.objects[m].ai[1]
                                ELSE AiBasic
                  IN [w |-> WAdd([w1 EXCEPT !.objects[m].ai =
                                     Some(AiConfused(old_ai, CONFUSE_NUM_TURNS))],
                                 "The eyes look vacant, as he starts to stumble around!",
                                 "LIGHT_GREEN"),
                      result |-> "UsedUp"]
             ELSE [w |-> WAdd(w1, "No enemy is close enough to strike.", "RED"),
                   result |-> "Cancelled"])

\* The loop of cast_fireball with the radius test strict.
RECURSIVE FireballLoop_strict_radius(_, _, _, _, _)
FireballLoop_strict_radius(w, id, x, y, xp_to_gain) ==
    IF id > Len(w.objects)
    THEN [w |-> w, xp |-> xp_to_gain]
    ELSE LET obj == w.objects[id]
         IN IF DistSq(obj.x, obj.y, x, y) < FIREBALL_RADIUS * FIREBALL_RADIUS
               /\ IsSome(obj.fighter)
            THEN With(take_damage(WAdd(w, "get burned for hit points.",
                                       "ORANGE"), id, FIREBALL_DAMAGE),
                      LAMBDA r :
                          FireballLoop_strict_radius(r.w, id + 1, x, y,
                              IF IsSome(r.xp) /\ id # PLAYER
                              THEN xp_to_gain + r.xp[1] ELSE xp_to_gain))
            ELSE FireballLoop_strict_radius(w, id + 1, x, y, xp_to_gain)

\* The loop of cast_fireball over objects id..len, with the xp gained so far.
RECURSIVE FireballLoop(_, _, _, _, _)
FireballLoop(w, id, x, y, xp_to_gain) ==
    IF id > Len(w.objects)
    THEN [w |-> w, xp |-> xp_to_gain]
    ELSE LET obj == w.objects[id]
         IN IF DistSq(obj.x, obj.y, x, y) <= FIREBALL_RADIUS * FIREBALL_RADIUS
               /\ IsSome(obj.fighter)
            THEN With(take_damage(WAdd(w, "get burned for hit points.",
                                       "ORANGE"), id, FIREBALL_DAMAGE),
                      LAMBDA r :
                          FireballLoop(r.w, id + 1, x, y,
                              IF IsSome(r.xp) /\ id # PLAYER
                              THEN xp_to_gain + r.xp[1] ELSE xp_to_gain))
            ELSE FireballLoop(w, id + 1, x, y, xp_to_gain)

\* cast_fireball that adds the xp of every entity the fireball killed.
cast_fireball_counts_player(w, tile) ==
    With(render_all(
             WAdd(w, "Left-click a target tile for the fireball, or right-click to cancel.",
                  "LIGHT_CYAN"), FALSE),
         LAMBDA w1 :
             IF ~IsSome(tile)
             THEN [w |-> w1, result |-> "Cancelled"]
             ELSE With(FireballLoop(
                           WAdd(w1, "The fireball explodes, burning everything!",
                                "ORANGE"),
                           1, tile[1][1], tile[1][2], 0),
                       LAMBDA r :
                           [w |-> [r.w EXCEPT
                                      !.objects[PLAYER].fighter[1].xp =
                                          @ + r.xp
                                            + (IF r.w.objects[PLAYER].alive
                                               THEN 0 ELSE @)],
                            result |-> "UsedUp"]))

\* cast_fireball; tile is what target_tile returned.
cast_fireball(w, tile) ==
    With(render_all(
             WAdd(w, "Left-click a target tile for the fireball, or right-click to cancel.",
                  "LIGHT_CYAN"), FALSE),
         LAMBDA w1 :
             IF ~IsSome(tile)
             THEN [w |-> w1, result |-> "Cancelled"]
             ELSE With(FireballLoop(
                           WAdd(w1, "The fireball explodes, burning everything!",
                                "ORANGE"),
                           1, tile[1][1], tile[1][2], 0),
                       LAMBDA r :
                           [w |-> [r.w EXCEPT
                                      !.objects[PLAYER].fighter[1].xp = @ + r.xp],
                            result |-> "UsedUp"]))

\* toggle_equipment that equips without dequipping the slot's occupant.
toggle_equipment_keeps_occupant(w, inventory_id) ==
    LET e == w.inventory[inventory_id].equipment
    IN IF ~IsSome(e)
       THEN [w |-> w, result |-> "Cancelled"]
       ELSE IF e[1].equipped
            THEN [w |-> dequip(w, inventory_id), result |-> "UsedAndKept"]
            ELSE [w |-> equip(w, inventory_id), result |-> "UsedAndKept"]

\* toggle_equipment
toggle_equipment(w, inventory_id) ==
    LET e == w.inventory[inventory_id].equipment
    IN IF ~IsSome(e)
       THEN [w |-> w, result |-> "Cancelled"]
       ELSE IF e[1].equipped
            THEN [w |-> dequip(w, inventory_id), result |-> "UsedAndKept"]
            ELSE With(get_equipped_in_slot(e[1].slot, w.inventory),
                      LAMBDA old :
                          [w |-> equip(IF IsSome(old) THEN dequip(w, old[1])
                                       ELSE w, inventory_id),
                           result |-> "UsedAndKept"])

\* The effect function use_item dispatches to; target is the outcome of the
\* targeting interaction of Confuse (a monster id) or Fireball (a tile).
on_use(w, inventory_id, item, target) ==
    CASE item = "Heal" -> cast_heal(w)
      [] item = "Lightning" -> cast_lightning(w)
      [] item = "Confuse" -> cast_confuse(w, target)
      [] item = "Fireball" -> cast_fireball(w, target)
      [] OTHER -> toggle_equipment(w, inventory_id)

\* use_item that removes a used-up item by swap_remove.
use_item_swap_remove(w, inventory_id, target) ==
    IF IsSome(w.inventory[inventory_id].item)
    THEN With(on_use(w, inventory_id, w.inventory[inventory_id].item[1],
                     target),
              LAMBDA r :
                  CASE r.result = "UsedUp" ->
                           [w |-> [r.w EXCEPT
                                      !.inventory = SwapRemove(@, inventory_id),
                                      !.iid = SwapRemove(@, inventory_id)],
                            result |-> r.result]
                    [] r.result = "UsedAndKept" -> r
                    [] OTHER -> [w |-> WAdd(r.w, "Cancelled", "WHITE"),
                                 result |-> r.result])
    ELSE [w |-> WAdd(w, "cannot be used.", "WHITE"), result |-> "Cancelled"]

\* use_item
use_item(w, inventory_id, target) ==
    IF IsSome(w.inventory[inventory_id].item)
    THEN With(on_use(w, inventory_id, w.inventory[inventory_id].item[1],
                     target),
              LAMBDA r :
                  CASE r.result = "UsedUp" ->
                           [w |-> [r.w EXCEPT
                                      !.inventory = RemoveAt(@, inventory_id),
                                      !.iid = RemoveAt(@, inventory_id)],
                            result |-> r.result]
                    [] r.result = "UsedAndKept" -> r
                    [] OTHER -> [w |-> WAdd(r.w, "Cancelled", "WHITE"),
                                 result |-> r.result])
    ELSE [w |-> WAdd(w, "cannot be used.", "WHITE"), result |-> "Cancelled"]

\* The outcomes the targeting interaction of an item can have.
Targets(w, inventory_id) ==
    LET it == w.inventory[inventory_id].item
    IN IF IsSome(it) /\ it[1] = "Confuse"
       THEN {None} \cup {Some(m) : m \in TargetMonsters(w, Some(CONFUSE_RANGE))}
       ELSE IF IsSome(it) /\ it[1] = "Fireball"
            THEN {None} \cup {Some(c) : c \in TargetTiles(w, None)}
            ELSE {None}

(***************************************************************************)
(* Leveling and level transition.                                          *)
(***************************************************************************)
\* level_up that needs more xp than the threshold.
level_up_above_threshold(w, choice) ==
    LET player == w.objects[PLAYER]
        level_up_xp == LEVEL_UP_BASE + player.level * LEVEL_UP_FACTOR
        f == [player.fighter[1] EXCEPT !.xp = @ - level_up_xp]
        f1 == CASE choice = 0 -> [f EXCEPT !.base_max_hp = @ + 20,
                                           !.hp = @ + 20]
                [] choice = 1 -> [f EXCEPT !.base_power = @ + 1]
                [] OTHER -> [f EXCEPT !.base_defense = @ + 1]
    IN IF player.fighter[1].xp > level_up_xp
       THEN [WAdd(w, "Your battle skills grow stronger!", "YELLOW") EXCEPT
                !.objects[PLAYER].level = @ + 1,
                !.objects[PLAYER].fighter = Some(f1)]
       ELSE w

\* level_up that takes the threshold of the level reached from the xp.
level_up_threshold_of_new_level(w, choice) ==
    LET player == w.objects[PLAYER]
        level_up_xp == LEVEL_UP_BASE + player.level * LEVEL_UP_FACTOR
        f == [player.fighter[1] EXCEPT !.xp = @ - (level_up_xp + LEVEL_UP_FACTOR)]
        f1 == CASE choice = 0 -> [f EXCEPT !.base_max_hp = @ + 20,
                                           !.hp = @ + 20]
                [] choice = 1 -> [f EXCEPT !.base_power = @ + 1]
                [] OTHER -> [f EXCEPT !.base_defense = @ + 1]
    IN IF player.fighter[1].xp >= level_up_xp
       THEN [WAdd(w, "Your battle skills grow stronger!", "YELLOW") EXCEPT
                !.objects[PLAYER].level = @ + 1,
                !.objects[PLAYER].fighter = Some(f1)]
       ELSE w

\* level_up; choice is the option the stat menu finally returns (0, 1, 2).
level_up(w, choice) ==
    LET player == w.objects[PLAYER]
        level_up_xp == LEVEL_UP_BASE + player.level * LEVEL_UP_FACTOR
        xp == IF IsSome(player.fighter) THEN player.fighter[1].xp ELSE 0
    IN IF xp >= level_up_xp
       THEN LET w1 == WAdd([w EXCEPT !.objects[PLAYER].level = @ + 1],
                           "Your battle skills grow stronger!", "YELLOW")
                f == [w1.objects[PLAYER].fighter[1] EXCEPT !.xp = @ - level_up_xp]
                f1 == CASE choice = 0 -> [f EXCEPT !.base_max_hp = @ + 20,
                                                   !.hp = @ + 20]
                        [] choice = 1 -> [f EXCEPT !.base_power = @ + 1]
                        [] OTHER -> [f EXCEPT !.base_defense = @ + 1]
            IN [w1 EXCEPT !.objects[PLAYER].fighter = Some(f1)]
       ELSE w

\* from_dungeon_level that takes the first entry reached, not the last.
from_dungeon_level_first_entry(table, level) ==
    LET hits == {k \in 1..Len(table) : level >= table[k][1]}
    IN IF hits = {} THEN 0
       ELSE table[CHOOSE k \in hits : \A j \in hits : k <= j][2]

\* from_dungeon_level; table is a sequence of <<level, value>> transitions.
from_dungeon_level(table, level) ==
    LET hits == {k \in 1..Len(table) : level >= table[k][1]}
    IN IF hits = {} THEN 0
       ELSE table[CHOOSE k \in hits : \A j \in hits : j <= k][2]

\* The monsters place_objects creates.
Orc(x, y) ==
    [ObjectNew(x, y, "o", "orc", "DESATURATED_GREEN", TRUE) EXCEPT
        !.fighter = Some(NewFighter(20, 20, 0, 4, "Monster", 35)),
        !.ai = Some(AiBasic), !.alive = TRUE]

Troll(x, y) ==
    [ObjectNew(x, y, "T", "troll", "DARKER_GREEN", TRUE) EXCEPT
        !.fighter = Some(NewFighter(30, 30, 2, 8, "Monster", 100)),
        !.ai = Some(AiBasic), !.alive = TRUE]

\* The items place_objects creates.
ItemObject(kind, x, y) ==
    CASE kind = "Heal" ->
            [ObjectNew(x, y, "!", "healing potion", "VIOLET", FALSE) EXCEPT
                !.item = Some("Heal")]
      [] kind = "Lightning" ->
            [ObjectNew(x, y, "#", "scroll of lightning bolt", "LIGHT_YELLOW",
                       FALSE) EXCEPT !.item = Some("Lightning")]
      [] kind = "Fireball" ->
            [ObjectNew(x, y, "#", "scroll of fireball", "LIGHT_YELLOW", FALSE)
                EXCEPT !.item = Some("Fireball")]
      [] kind = "Confuse" ->
            [ObjectNew(x, y, "#", "scroll of confusion", "LIGHT_YELLOW", FALSE)
                EXCEPT !.item = Some("Confuse")]
      [] kind = "Sword" ->
            [ObjectNew(x, y, "/", "sword", "SKY", FALSE) EXCEPT
                !.item = Some("Sword"),
                !.equipment = Some(NewEquipment("RightHand", FALSE, 0, 3, 0))]
      [] OTHER ->
            [ObjectNew(x, y, "[", "shield", "DARKER_ORANGE", FALSE) EXCEPT
                !.item = Some("Shield"),
                !.equipment = Some(NewEquipment("LeftHand", FALSE, 0, 0, 1))]

\* The dagger new_game puts into the inventory.
Dagger ==
    [ObjectNew(0, 0, "-", "dagger", "SKY", FALSE) EXCEPT
        !.item = Some("Sword"),
        !.equipment = Some(NewEquipment("LeftHand", TRUE, 0, 2, 0))]

\* The stairs make_map places.
Stairs(x, y) ==
    [ObjectNew(x, y, "<", "stairs", "WHITE", FALSE) EXCEPT
        !.always_visible = TRUE]

\* The player new_game creates.
Player(x, y) ==
    [ObjectNew(x, y, "@", "player", "WHITE", TRUE) EXCEPT
        !.alive = TRUE,
        !.fighter = Some(NewFighter(100, 100, 1, 2, "Player", 0))]

\* The spawn weights of place_objects at a dungeon level.
troll_chance(level) ==
    from_dungeon_level(<<<<3, 15>>, <<5, 30>>, <<7, 60>>>>, level)

item_chance(kind, level) ==
    CASE kind = "Heal" -> 35
      [] kind = "Lightning" -> from_dungeon_level(<<<<4, 25>>>>, level)
      [] kind = "Fireball" -> from_dungeon_level(<<<<6, 25>>>>, level)
      [] kind = "Confuse" -> from_dungeon_level(<<<<2, 10>>>>, level)
      [] kind = "Sword" -> from_dungeon_level(<<<<4, 5>>>>, level)
      [] OTHER -> from_dungeon_level(<<<<8, 15>>>>, level)

(***************************************************************************)
(* Generated levels.  make_map carves rooms and corridors into a grid of   *)
(* walls; on the scaled-down grid a generated level is one of two layouts  *)
(* (a room of 3x3 cells and a second room joined to it by a corridor),     *)
(* with the player's start at the centre of the first room, the stairs at  *)
(* the centre of the last room, and what place_objects spawned.            *)
(***************************************************************************)
FloorA == {<<1, 1>>, <<1, 2>>, <<1, 3>>, <<2, 2>>} \cup ((3..5) \X (1..3))
FloorB == {<<1, 2>>, <<2, 2>>} \cup ((3..5) \X (1..3))

MapOf(floor) == [c \in Cells |-> IF c \in floor THEN TileEmpty ELSE TileWall]

LayoutA == [floor |-> FloorA, start |-> <<1, 2>>, stairs |-> <<4, 2>>]
LayoutB == [floor |-> FloorB, start |-> <<4, 2>>, stairs |-> <<1, 2>>]

\* What place_objects can spawn into the level: at most one monster and at
\* most one item, of a kind whose weight at this level is not 0.
SpawnSets(level) ==
    LET monsters == {<<>>, <<Orc(5, 1)>>}
                    \cup {<<Troll(5, 1)>> : t \in {1} \cap (1..troll_chance(level))}
        items == {<<>>} \cup
                 {<<ItemObject(k, 3, 3)>> :
                     k \in {kk \in {"Heal"} : item_chance(kk, level) > 0}}
    IN {m \o i : m \in monsters, i \in items}

GeneratedLevels(level) ==
    {[layout |-> l, spawns |-> sp] : l \in {LayoutA, LayoutB},
                                     sp \in SpawnSets(level)}

\* make_map keeping the first spawned entity in front of the player.
make_map_player_not_first(w, gen) ==
    LET n == Len(gen.spawns) + 1
        objs == gen.spawns
                \o <<[w.objects[PLAYER] EXCEPT !.x = gen.layout.start[1],
                                               !.y = gen.layout.start[2]]>>
                \o <<Stairs(gen.layout.stairs[1], gen.layout.stairs[2])>>
    IN [w EXCEPT !.objects = objs,
                 !.oid = [k \in 1..(n - 1) |-> w.nid + k - 1]
                         \o <<w.oid[PLAYER]>> \o <<w.nid + n - 1>>,
                 !.deaths = @ \o [k \in 1..n |-> 0],
                 !.nid = @ + n,
                 !.map = MapOf(gen.layout.floor)]

\* make_map; gen is the level the random generation produced.
make_map(w, gen) ==
    LET n == Len(gen.spawns) + 1
        objs == <<[w.objects[PLAYER] EXCEPT !.x = gen.layout.start[1],
                                            !.y = gen.layout.start[2]]>>
                \o gen.spawns
                \o <<Stairs(gen.layout.stairs[1], gen.layout.stairs[2])>>
    IN [w EXCEPT !.objects = objs,
                 !.oid = <<w.oid[PLAYER]>> \o [k \in 1..n |-> w.nid + k - 1],
                 !.deaths = @ \o [k \in 1..n |-> 0],
                 !.nid = @ + n,
                 !.map = MapOf(gen.layout.floor)]

\* next_level that leaves dungeon_level as it is.
next_level_keeps_level(w, gen) ==
    LET heal_hp == max_hp(w.objects[PLAYER], w.inventory) \div 2
    IN make_map(
           WAdd(heal(WAdd(w, "You take a moment to rest, and recover your strength.",
                          "VIOLET"), PLAYER, heal_hp),
                "After a rare moment of peace, you descend deeper.", "RED"),
           gen)

\* next_level (initialise_fov copies the map's flags into tcod.fov and
\* leaves the in-FOV flags of the last computation as they are).
next_level(w, gen) ==
    LET heal_hp == max_hp(w.objects[PLAYER], w.inventory) \div 2
    IN make_map(
           [WAdd(heal(WAdd(w, "You take a moment to rest, and recover your strength.",
                           "VIOLET"), PLAYER, heal_hp),
                 "After a rare moment of peace, you descend deeper.", "RED")
               EXCEPT !.dungeon_level = @ + 1],
           gen)

(***************************************************************************)
(* Persistence Codec.  save_game writes serde_json's rendering of the      *)
(* tuple (objects, game); load_game parses it.  A document is modelled as  *)
(* the JSON value it denotes: a struct is an object with one member per    *)
(* field, a Vec or tuple an array, None is null and Some(v) is v, a unit   *)
(* variant is a string and a struct variant an object with the variant's   *)
(* name as its only member.                                                *)
(***************************************************************************)
JNull == [t |-> "null"]
JNum(n) == [t |-> "num", v |-> n]
JStr(str) == [t |-> "str", v |-> str]
JBool(b) == [t |-> "bool", v |-> b]
JArr(seq) == [t |-> "arr", v |-> seq]
JObj(members) == [t |-> "obj", v |-> members]

JOption(o, Enc(_)) == IF IsSome(o) THEN Enc(o[1]) ELSE JNull

\* Serialize for Ai
RECURSIVE EncodeAi(_)
EncodeAi(ai) ==
    IF ai.tag = "Basic" THEN JStr("Basic")
    ELSE JObj(<<<<"Confused",
                  JObj(<<<<"previous_ai", EncodeAi(ai.previous_ai)>>,
                         <<"num_turns", JNum(ai.num_turns)>>>>)>>>>)

\* Serialize for Fighter
EncodeFighter(f) ==
    JObj(<<<<"hp", JNum(f.hp)>>, <<"base_max_hp", JNum(f.base_max_hp)>>,
           <<"base_defense", JNum(f.base_defense)>>,
           <<"base_power", JNum(f.base_power)>>,
           <<"on_death", JStr(f.on_death)>>, <<"xp", JNum(f.xp)>>>>)

\* Serialize for Equipment
EncodeEquipment(e) ==
    JObj(<<<<"slot", JStr(e.slot)>>, <<"equipped", JBool(e.equipped)>>,
           <<"max_hp_bonus", JNum(e.max_hp_bonus)>>,
           <<"power_bonus", JNum(e.power_bonus)>>,
           <<"defense_bonus", JNum(e.defense_bonus)>>>>)

\* Serialize for Object
EncodeObject(o) ==
    JObj(<<<<"x", JNum(o.x)>>, <<"y", JNum(o.y)>>, <<"char", JStr(o.char)>>,
           <<"color", JStr(o.color)>>, <<"name", JStr(o.name)>>,
           <<"blocks", JBool(o.blocks)>>, <<"alive", JBool(o.alive)>>,
           <<"fighter", JOption(o.fighter, EncodeFighter)>>,
           <<"ai", JOption(o.ai, EncodeAi)>>,
           <<"item", JOption(o.item, JStr)>>,
           <<"always_visible", JBool(o.always_visible)>>,
           <<"level", JNum(o.level)>>,
           <<"equipment", JOption(o.equipment, EncodeEquipment)>>>>)

\* A Tile written without its explored flag set.
EncodeTile_unexplored(tile) ==
    JObj(<<<<"blocked", JBool(tile.blocked)>>,
           <<"block_sight", JBool(tile.block_sight)>>,
           <<"explored", JBool(FALSE)>>>>)

\* Serialize for Tile
EncodeTile(tile) ==
    JObj(<<<<"blocked", JBool(tile.blocked)>>,
           <<"block_sight", JBool(tile.block_sight)>>,
           <<"explored", JBool(tile.explored)>>>>)

EncodeObjects(objs) == JArr([k \in 1..Len(objs) |-> EncodeObject(objs[k])])

\* Serialize for Map = Vec<Vec<Tile>>, indexed [x][y].
EncodeMap(m) ==
    JArr([x \in 1..MAP_WIDTH |->
             JArr([y \in 1..MAP_HEIGHT |-> EncodeTile(m[<<x - 1, y - 1>>])])])

\* Serialize for Messages
EncodeLog(lg) ==
    JArr([k \in 1..Len(lg) |-> JArr(<<JStr(lg[k][1]), JStr(lg[k][2])>>)])

\* Serialize for Game
EncodeGame(w) ==
    JObj(<<<<"map", EncodeMap(w.map)>>, <<"log", EncodeLog(w.log)>>,
           <<"inventory", EncodeObjects(w.inventory)>>,
           <<"dungeon_level", JNum(w.dungeon_level)>>>>)

\* save_game: serde_json::to_string(&(objects, game)), written to the file.
save_game(w) == JArr(<<EncodeObjects(w.objects), EncodeGame(w)>>)

\* File::create and write_all of save_game: the file afterwards and whether
\* the write succeeded (a file that cannot be created is left as it was).
write_savegame(file, data, writable) ==
    IF writable THEN [ok |-> TRUE, file |-> Some(data)]
    ELSE [ok |-> FALSE, file |-> file]

\* Results of parsing.
Ok(v) == [ok |-> TRUE, v |-> v]
Err == [ok |-> FALSE]

HasField(j, key) ==
    j.t = "obj" /\ \E k \in 1..Len(j.v) : j.v[k][1] = key

Field(j, key) == j.v[CHOOSE k \in 1..Len(j.v) : j.v[k][1] = key][2]

DecodeNum(j) == IF j.t = "num" THEN Ok(j.v) ELSE Err
DecodeU32(j) == IF j.t = "num" /\ j.v >= 0 THEN Ok(j.v) ELSE Err
DecodeBool(j) == IF j.t = "bool" THEN Ok(j.v) ELSE Err
DecodeStr(j) == IF j.t = "str" THEN Ok(j.v) ELSE Err
DecodeEnum(j, variants) ==
    IF j.t = "str" /\ j.v \in variants THEN Ok(j.v) ELSE Err

DecodeOption(j, Dec(_)) ==
    IF j.t = "null" THEN Ok(None)
    ELSE With(Dec(j), LAMBDA r : IF r.ok THEN Ok(Some(r.v)) ELSE Err)

\* A struct: every field present and parsed by its decoder; fields is a
\* sequence of names, Dec(name, json) the decoder of the field.
DecodeStruct(j, fields, Dec(_, _)) ==
    IF /\ j.t = "obj"
       /\ \A k \in 1..Len(fields) :
              HasField(j, fields[k]) /\ Dec(fields[k], Field(j, fields[k])).ok
    THEN Ok([name \in {fields[k] : k \in 1..Len(fields)} |->
                 Dec(name, Field(j, name)).v])
    ELSE Err

\* A Vec: an array whose elements all parse.
DecodeVec(j, Dec(_)) ==
    IF j.t = "arr" /\ \A k \in 1..Len(j.v) : Dec(j.v[k]).ok
    THEN Ok([k \in 1..Len(j.v) |-> Dec(j.v[k]).v])
    ELSE Err

\* Deserialize for Ai
RECURSIVE DecodeAi(_)
DecodeAi(j) ==
    IF j.t = "str"
    THEN IF j.v = "Basic" THEN Ok(AiBasic) ELSE Err
    ELSE IF HasField(j, "Confused") /\ Len(j.v) = 1
         THEN LET c == Field(j, "Confused")
              IN IF HasField(c, "previous_ai") /\ HasField(c, "num_turns")
                 THEN With(DecodeAi(Field(c, "previous_ai")),
                           LAMBDA prev :
                               With(DecodeNum(Field(c, "num_turns")),
                                    LAMBDA n :
                                        IF prev.ok /\ n.ok
                                        THEN Ok(AiConfused(prev.v, n.v))
                                        ELSE Err))
                 ELSE Err
         ELSE Err

\* Deserialize for Fighter
DecodeFighter(j) ==
    DecodeStruct(j, <<"hp", "base_max_hp", "base_defense", "base_power",
                      "on_death", "xp">>,
                 LAMBDA name, v :
                     IF name = "on_death"
                     THEN DecodeEnum(v, {"Player", "Monster"})
                     ELSE DecodeNum(v))

\* Deserialize for Equipment
DecodeEquipment(j) ==
    DecodeStruct(j, <<"slot", "equipped", "max_hp_bonus", "power_bonus",
                      "defense_bonus">>,
                 LAMBDA name, v :
                     CASE name = "slot" ->
                              DecodeEnum(v, {"LeftHand", "RightHand", "Head"})
                       [] name = "equipped" -> DecodeBool(v)
                       [] OTHER -> DecodeNum(v))

DecodeItem(j) ==
    DecodeEnum(j, {"Heal", "Lightning", "Confuse", "Fireball", "Sword",
                   "Shield"})

\* Deserialize for Object
DecodeObject(j) ==
    DecodeStruct(j, <<"x", "y", "char", "color", "name", "blocks", "alive",
                      "fighter", "ai", "item", "always_visible", "level",
                      "equipment">>,
                 LAMBDA name, v :
                     CASE name \in {"x", "y", "level"} -> DecodeNum(v)
                       [] name \in {"char", "color", "name"} -> DecodeStr(v)
                       [] name \in {"blocks", "alive", "always_visible"} ->
                              DecodeBool(v)
                       [] name = "fighter" -> DecodeOption(v, DecodeFighter)
                       [] name = "ai" -> DecodeOption(v, DecodeAi)
                       [] name = "item" -> DecodeOption(v, DecodeItem)
                       [] OTHER -> DecodeOption(v, DecodeEquipment))

\* Deserialize for Tile
DecodeTile(j) ==
    DecodeStruct(j, <<"blocked", "block_sight", "explored">>,
                 LAMBDA name, v : DecodeBool(v))

DecodeObjects(j) == DecodeVec(j, DecodeObject)

\* Deserialize for Map; the grid of the session has MAP_WIDTH columns of
\* MAP_HEIGHT tiles.
DecodeMap(j) ==
    With(DecodeVec(j, LAMBDA col : DecodeVec(col, DecodeTile)),
         LAMBDA cols :
             IF cols.ok /\ Len(cols.v) = MAP_WIDTH
                /\ \A x \in 1..MAP_WIDTH : Len(cols.v[x]) = MAP_HEIGHT
             THEN Ok([c \in Cells |-> cols.v[c[1] + 1][c[2] + 1]])
             ELSE Err)

\* Deserialize for a message (String, Color)
DecodeMessage(j) ==
    IF j.t = "arr" /\ Len(j.v) = 2 /\ j.v[1].t = "str" /\ j.v[2].t = "str"
    THEN Ok(<<j.v[1].v, j.v[2].v>>)
    ELSE Err

\* Deserialize for Game
DecodeGame(j) ==
    DecodeStruct(j, <<"map", "log", "inventory", "dungeon_level">>,
                 LAMBDA name, v :
                     CASE name = "map" -> DecodeMap(v)
                       [] name = "log" -> DecodeVec(v, DecodeMessage)
                       [] name = "inventory" -> DecodeObjects(v)
                       [] OTHER -> DecodeU32(v))

\* load_game: the file opened and parsed as (Vec<Object>, Game).
load_game(file) ==
    IF ~IsSome(file) THEN Err
    ELSE LET j == file[1]
         IN IF j.t = "arr" /\ Len(j.v) = 2
            THEN With(DecodeObjects(j.v[1]),
                      LAMBDA objs :
                          With(DecodeGame(j.v[2]),
                               LAMBDA game :
                                   IF objs.ok /\ game.ok
                                   THEN Ok([objects |-> objs.v, game |-> game.v])
                                   ELSE Err))
            ELSE Err


(***************************************************************************)
(* Turn Scheduler: handle_keys and the loop of play_game.                  *)
(***************************************************************************)
\* handle_keys: the world afterwards and the PlayerAction returned.  A key
\* carries what the menus and the targeting interaction it opens return.
handle_keys(w, key) ==
    LET player_alive == w.objects[PLAYER].alive
        player_pos == Pos(w.objects[PLAYER])
    IN CASE key.code = "move" /\ player_alive ->
               [w |-> player_move_or_attack(w, key.dx, key.dy),
                action |-> "TookTurn", result |-> "-"]
         [] key.code = "wait" /\ player_alive ->
               [w |-> w, action |-> "TookTurn", result |-> "-"]
         [] key.code = "g" /\ player_alive ->
               LET item_id == FirstIndex(w.objects, LAMBDA o :
                                  Pos(o) = player_pos /\ IsSome(o.item))
               IN [w |-> IF IsSome(item_id) THEN pick_item_up(w, item_id[1])
                         ELSE w,
                   action |-> "DidnTakeTurn", result |-> "-"]
         [] key.code = "d" /\ player_alive ->
               [w |-> IF IsSome(key.sel) THEN drop_item(w, key.sel[1]) ELSE w,
                action |-> "DidnTakeTurn", result |-> "-"]
         [] key.code = "i" /\ player_alive ->
               IF IsSome(key.sel)
               THEN With(use_item(w, key.sel[1], key.target),
                         LAMBDA r :
                             [w |-> r.w,
                              action |-> IF r.result = "Cancelled"
                                         THEN "DidnTakeTurn" ELSE "TookTurn",
                              result |-> r.result])
               ELSE [w |-> w, action |-> "DidnTakeTurn", result |-> "-"]
         [] key.code = "s" /\ player_alive ->
               LET player_on_stairs ==
                       \E k \in 1..Len(w.objects) :
                           /\ Pos(w.objects[k]) = player_pos
                           /\ w.objects[k].name = "stairs"
               IN [w |-> IF player_on_stairs THEN next_level(w, key.gen)
                         ELSE w,
                   action |-> "DidnTakeTurn", result |-> "-"]
         [] key.code = "c" /\ player_alive ->
               [w |-> w, action |-> "DidnTakeTurn", result |-> "-"]
         [] key.code = "fullscreen" ->
               [w |-> w, action |-> "DidnTakeTurn", result |-> "-"]
         [] key.code = "escape" ->
               [w |-> w, action |-> "Exit", result |-> "-"]
         [] OTHER -> [w |-> w, action |-> "DidnTakeTurn", result |-> "-"]

\* inventory_menu: what the menu over the inventory can return.
\* No level is being generated.
NoGeneration == [phase |-> "idle"]

InventoryMenu(inv) == {None} \cup {Some(k) : k \in 1..Len(inv)}

\* The world the functions work on, read from the variables.  The fields
\* after fov are bookkeeping of the model: oid/iid give every entity of the
\* store and of the inventory a stable identity, deaths counts the calls of
\* the death callback per identity, panic records a failed assertion and
\* walked that ai_confused took a random step.
World ==
    [objects |-> objects, inventory |-> inventory, map |-> map, log |-> log,
     dungeon_level |-> dungeon_level, fov |-> fov,
     oid |-> hist.oid, iid |-> hist.iid, nid |-> hist.nid,
     deaths |-> hist.deaths, panic |-> hist.panic, walked |-> FALSE]

\* The variables of the game written back from a world.
Commit(w) ==
    /\ objects' = w.objects
    /\ inventory' = w.inventory
    /\ map' = w.map
    /\ log' = w.log
    /\ dungeon_level' = w.dungeon_level
    /\ fov' = w.fov

\* Bookkeeping of confusion per identity: the num_turns and the previous_ai
\* the entity's current Confused state was installed with (n0 = -2: none),
\* and the random-walk turns it took since.
NoConf == [n0 |-> -2, walks |-> 0, prev |-> AiBasic]

ConfOfAi(ai) ==
    IF IsSome(ai) /\ ai[1].tag = "Confused"
    THEN [n0 |-> ai[1].num_turns, walks |-> 0, prev |-> ai[1].previous_ai]
    ELSE NoConf

\* The bookkeeping carried over to a world (new identities start at NoConf).
SameConf(w) ==
    [k \in 1..(w.nid - 1) |->
        IF k <= Len(hist.conf) THEN hist.conf[k] ELSE NoConf]

\* The history record after an operation.
HistOf(w, op, use, acted, cf) ==
    [oid |-> w.oid, iid |-> w.iid, nid |-> w.nid, deaths |-> w.deaths,
     panic |-> w.panic, conf |-> cf, op |-> op, use |-> use, acted |-> acted,
     revert |-> None, saved |-> None]

\* The head of an iteration of play_game's loop: render_all with the FOV
\* recomputed if the player's position changed, level_up, and the update of
\* previous_player_position.
Prologue ==
    /\ pc = "top"
    /\ \E choice \in 0..2 :
           \E w \in {level_up(render_all(World,
                          previous_player_position # Pos(objects[PLAYER])),
                      choice)} :
               /\ Commit(w)
               /\ hist' = HistOf(w, "prologue", None, <<>>, SameConf(w))
    /\ previous_player_position' = Pos(objects[PLAYER])
    /\ pc' = "keys"
    /\ UNCHANGED <<ai_id, ai_len, player_action, savegame, steps>>
    /\ UNCHANGED generation

\* The next id of the loop without the test for an AI capability.
NextAi_every_id(objs, from, len) == Min(from, len + 1)

\* The next id >= from, below the length the pass started with, whose
\* entity has an AI; len + 1 when there is none (the iterations of the loop
\* `for id in 0..objects.len()` over entities without AI do nothing).
NextAi(objs, from, len) ==
    IF \E k \in from..len : IsSome(objs[k].ai)
    THEN CHOOSE k \in from..len :
             IsSome(objs[k].ai) /\ \A j \in from..(k - 1) : ~IsSome(objs[j].ai)
    ELSE len + 1

\* The entry test of the AI pass without the test of the action.
EntersAiPass_any_action(objs, action) == objs[PLAYER].alive

\* Whether play_game enters the AI pass after handle_keys returned action.
EntersAiPass(objs, action) ==
    objs[PLAYER].alive /\ action # "DidnTakeTurn"

\* The rest of the iteration after handle_keys returned r for a key: the
\* game is saved and the loop left on Exit; otherwise the AI pass is entered
\* if the player is alive and the action took a turn.
AfterKeys(r, op, use, cf) ==
    /\ Commit(r.w)
    /\ player_action' = r.action
    /\ steps' = steps + 1
    /\ IF r.action = "Exit"
       THEN /\ \E writable \in BOOLEAN :
                   \E res \in {write_savegame(savegame, save_game(r.w), writable)} :
                       /\ savegame' = res.file
                       /\ IF res.ok
                          THEN /\ pc' = "menu"
                               /\ hist' = [HistOf(r.w, op, use, <<>>, cf) EXCEPT
                                      !.saved = Some([objects |-> r.w.objects,
                                                      inventory |-> r.w.inventory,
                                                      map |-> r.w.map,
                                                      log |-> r.w.log,
                                                      dungeon_level |->
                                                          r.w.dungeon_level])]
                          ELSE /\ pc' = "crashed"
                               /\ hist' = [HistOf(r.w, op, use, <<>>, cf) EXCEPT
                                      !.op = "save failed"]
            /\ UNCHANGED <<ai_id, ai_len>>
       ELSE /\ savegame' = savegame
            /\ hist' = HistOf(r.w, op, use, <<>>, cf)
            /\ IF EntersAiPass(r.w.objects, r.action)
               THEN /\ ai_len' = Len(r.w.objects)
                    /\ ai_id' = NextAi(r.w.objects, 1, Len(r.w.objects))
                    /\ pc' = IF ai_id' <= ai_len' THEN "ai" ELSE "top"
               ELSE pc' = "top" /\ UNCHANGED <<ai_id, ai_len>>
    /\ UNCHANGED previous_player_position
    /\ UNCHANGED generation

KeysReady == pc = "keys" /\ steps < MaxSteps

KeyMove ==
    /\ KeysReady
    /\ \E dx \in -1..1, dy \in -1..1 :
           /\ <<dx, dy>> # <<0, 0>>
           /\ \E r \in {handle_keys(World, [code |-> "move", dx |-> dx,
                                             dy |-> dy])} :
                  AfterKeys(r, "move", None, SameConf(r.w))

KeyWait ==
    /\ KeysReady
    /\ \E r \in {handle_keys(World, [code |-> "wait"])} :
           AfterKeys(r, "wait", None, SameConf(r.w))

KeyPickUp ==
    /\ KeysReady
    /\ \E r \in {handle_keys(World, [code |-> "g"])} :
           AfterKeys(r, "g", None, SameConf(r.w))

KeyDrop ==
    /\ KeysReady
    /\ \E sel \in InventoryMenu(inventory) :
           \E r \in {handle_keys(World, [code |-> "d", sel |-> sel])} :
               AfterKeys(r, "d", None, SameConf(r.w))

KeyUse ==
    /\ KeysReady
    /\ \E sel \in InventoryMenu(inventory) :
           \E target \in (IF IsSome(sel) /\ objects[PLAYER].alive
                          THEN Targets(World, sel[1]) ELSE {None}) :
               \E r \in {handle_keys(World, [code |-> "i", sel |-> sel,
                                               target |-> target])} :
                   LET used == IsSome(sel) /\ objects[PLAYER].alive
                   IN AfterKeys(r, "i",
                          IF used
                          THEN Some([id |-> sel[1],
                                     item |-> inventory[sel[1]].item,
                                     target |-> target, result |-> r.result])
                          ELSE None,
                          IF /\ used
                             /\ inventory[sel[1]].item = Some("Confuse")
                             /\ r.result = "UsedUp"
                          THEN [SameConf(r.w) EXCEPT
                                   ![hist.oid[target[1]]] =
                                       ConfOfAi(r.w.objects[target[1]].ai)]
                          ELSE SameConf(r.w))

KeyStairs ==
    /\ KeysReady
    /\ \E gen \in GeneratedLevels(dungeon_level + 1) :
           \E r \in {handle_keys(World, [code |-> "s", gen |-> gen])} :
               AfterKeys(r, "s", None, SameConf(r.w))

KeyCharacter ==
    /\ KeysReady
    /\ \E r \in {handle_keys(World, [code |-> "c"])} :
           AfterKeys(r, "c", None, SameConf(r.w))

KeyFullscreen ==
    /\ KeysReady
    /\ \E r \in {handle_keys(World, [code |-> "fullscreen"])} :
           AfterKeys(r, "fullscreen", None, SameConf(r.w))

KeyEscape ==
    /\ KeysReady
    /\ \E r \in {handle_keys(World, [code |-> "escape"])} :
           AfterKeys(r, "escape", None, SameConf(r.w))

KeyOther ==
    /\ KeysReady
    /\ \E r \in {handle_keys(World, [code |-> "other"])} :
           AfterKeys(r, "other", None, SameConf(r.w))

\* The history record after ai_take_turn, called for the entity at index id,
\* produced w: the entity is added to those that acted, a random step counts
\* as a walk of its confusion, and the evaluation that ends the confusion is
\* recorded with what the confusion was installed with.
AiHist(w, id) ==
    LET e == hist.oid[id]
        before == objects[id]
        after == w.objects[id]
        reverted == /\ IsSome(before.ai)
                    /\ before.ai[1].tag = "Confused"
                    /\ ~w.walked
        cf == IF w.walked
              THEN [hist.conf EXCEPT ![e].walks = @ + 1]
              ELSE IF reverted
                   THEN [hist.conf EXCEPT ![e] = ConfOfAi(after.ai)]
                   ELSE hist.conf
    IN [HistOf(w, "ai", None, Append(hist.acted, e), cf) EXCEPT
           !.revert = IF reverted
                      THEN Some([n0 |-> hist.conf[e].n0,
                                 walks |-> hist.conf[e].walks,
                                 prev |-> hist.conf[e].prev,
                                 ai |-> after.ai,
                                 moved |-> Pos(after) # Pos(before)])
                      ELSE None]

\* One iteration of the AI pass of play_game that calls ai_take_turn, for
\* the entity at ai_id; dx and dy are the random draws a Confused entity
\* makes.
AiStep ==
    /\ pc = "ai"
    /\ ai_id <= ai_len
    /\ \E dx \in -1..1, dy \in -1..1 :
           \E w \in {ai_take_turn(World, ai_id, dx, dy)} :
               /\ Commit(w)
               /\ hist' = AiHist(w, ai_id)
               /\ ai_id' = NextAi(w.objects, ai_id + 1, ai_len)
    /\ pc' = IF ai_id' <= ai_len THEN "ai" ELSE "top"
    /\ UNCHANGED <<previous_player_position, ai_len, player_action,
                   savegame, steps>>
    /\ UNCHANGED generation

(***************************************************************************)
(* The main menu.                                                          *)
(***************************************************************************)
\* The history record of a game that starts: identities 1..n for the store
\* and n+1..n+m for the inventory.
NoHist(objs, inv) ==
    LET n == Len(objs)
        m == Len(inv)
    IN [oid |-> [k \in 1..n |-> k], iid |-> [k \in 1..m |-> n + k],
        nid |-> n + m + 1,
        deaths |-> [k \in 1..(n + m) |->
                       IF k <= n /\ IsSome(objs[k].fighter)
                                 /\ objs[k].fighter[1].hp <= 0
                       THEN 1 ELSE 0],
        panic |-> FALSE,
        conf |-> [k \in 1..(n + m) |->
                     IF k <= n THEN ConfOfAi(objs[k].ai) ELSE NoConf],
        op |-> "init", use |-> None, acted |-> <<>>, revert |-> None,
        saved |-> None]

\* new_game; gen is the level make_map generates.
new_game(gen) ==
    LET w0 == [objects |-> <<Player(0, 0)>>, inventory |-> <<>>,
               map |-> MapOf({}), log |-> <<>>, dungeon_level |-> 1,
               fov |-> fov, oid |-> <<1>>, iid |-> <<>>, nid |-> 2,
               deaths |-> <<0>>, panic |-> FALSE, walked |-> FALSE]
    IN With(make_map(w0, gen),
            LAMBDA w1 :
                WAdd([w1 EXCEPT !.inventory = Append(@, Dagger),
                                !.iid = Append(@, w1.nid), !.nid = @ + 1,
                                !.deaths = Append(@, 0)],
                     "Welcome stranger! Prepare to perish.", "RED"))

\* main_menu, choice "Play a new game": new_game, then play_game.
MenuNewGame ==
    /\ pc = "menu"
    /\ steps < MaxSteps
    /\ \E gen \in GeneratedLevels(1) :
           \E w \in {new_game(gen)} :
               /\ Commit(w)
               /\ hist' = [NoHist(w.objects, w.inventory) EXCEPT !.op = "new"]
    /\ previous_player_position' = <<-1, -1>>
    /\ pc' = "top"
    /\ steps' = steps + 1
    /\ UNCHANGED <<ai_id, ai_len, player_action, savegame>>
    /\ UNCHANGED generation

\* main_menu, choice "Continue last game": load_game, then initialise_fov
\* and play_game, or the notice that there is no saved game.
MenuContinue ==
    /\ pc = "menu"
    /\ \E r \in {load_game(savegame)} :
          IF r.ok
          THEN /\ objects' = r.v.objects
               /\ inventory' = r.v.game.inventory
               /\ map' = r.v.game.map
               /\ log' = r.v.game.log
               /\ dungeon_level' = r.v.game.dungeon_level
               /\ hist' = [NoHist(r.v.objects, r.v.game.inventory) EXCEPT
                              !.op = "load", !.saved = hist.saved]
               /\ previous_player_position' = <<-1, -1>>
               /\ pc' = "top"
          ELSE /\ hist' = [hist EXCEPT !.op = "load failed"]
               /\ UNCHANGED <<objects, inventory, map, log, dungeon_level,
                              previous_player_position, pc>>
    /\ UNCHANGED <<fov, ai_id, ai_len, player_action, savegame, steps>>
    /\ UNCHANGED generation

\* main_menu, choice "Quit".
MenuQuit ==
    /\ pc = "menu"
    /\ pc' = "done"
    /\ UNCHANGED <<objects, inventory, map, log, dungeon_level, fov,
                   previous_player_position, ai_id, ai_len, player_action,
                   savegame, steps, hist>>
    /\ UNCHANGED generation

(***************************************************************************)
(* Initial states: the game in play on dungeon level 8, at the top of an   *)
(* iteration of play_game.                                                 *)
(***************************************************************************)
WithFighter(o, hp, xp) ==
    [o EXCEPT !.fighter[1].hp = hp, !.fighter[1].xp = xp]

InitGame(objs, inv) ==
    /\ objects = objs
    /\ inventory = inv
    /\ map = MapOf(FloorA)
    /\ log = <<>>
    /\ dungeon_level = 8
    /\ fov = {}
    /\ previous_player_position = <<-1, -1>>
    /\ pc = "top"
    /\ ai_id = 1
    /\ ai_len = 0
    /\ player_action = "DidnTakeTurn"
    /\ savegame = None
    /\ steps = 0
    /\ hist = NoHist(objs, inv)
    /\ generation = NoGeneration

\* A fight: a troll next to a weakened player, an orc further away.
InitFight ==
    InitGame(<<WithFighter(Player(3, 2), 7, 315),
               WithFighter(Troll(4, 2), 30, 100),
               WithFighter(Orc(5, 3), 4, 35),
               Stairs(4, 2)>>,
             <<ItemObject("Lightning", 0, 0), Dagger,
               ItemObject("Fireball", 0, 0)>>)

\* Equipment: the player alone, standing on a shield next to the stairs.
InitEquipment ==
    InitGame(<<WithFighter(Player(3, 2), 80, 0),
               ItemObject("Shield", 3, 2),
               Stairs(4, 2)>>,
             <<Dagger, ItemObject("Heal", 0, 0),
               [ItemObject("Sword", 0, 0) EXCEPT !.equipment[1].equipped = TRUE]>>)

\* Confusion: an orc in the side passage, some turns into its confusion.
InitConfusion ==
    InitGame(<<WithFighter(Player(3, 2), 100, 0),
               [Orc(1, 1) EXCEPT !.ai = Some(AiConfused(AiBasic, 1))],
               Stairs(4, 2)>>,
             <<Dagger, ItemObject("Confuse", 0, 0)>>)

\* The files main_menu can find when the program starts: none, a document
\* that is not a pair, and a pair whose first component is not a list of
\* entities.
StartFiles ==
    {None, Some(JArr(<<>>)), Some(JArr(<<JNum(0), JNum(0)>>))}

\* The program at its main menu, before any game was played.
InitMenu ==
    /\ objects = <<Player(0, 0)>>
    /\ inventory = <<>>
    /\ map = MapOf({})
    /\ log = <<>>
    /\ dungeon_level = 1
    /\ fov = {}
    /\ previous_player_position = <<-1, -1>>
    /\ pc = "menu"
    /\ ai_id = 1
    /\ ai_len = 0
    /\ player_action = "DidnTakeTurn"
    /\ savegame \in StartFiles
    /\ steps = 0
    /\ hist = NoHist(<<Player(0, 0)>>, <<>>)
    /\ generation = NoGeneration

Init == InitFight \/ InitEquipment \/ InitConfusion \/ InitMenu

Next ==
    \/ Prologue
    \/ KeyMove
    \/ KeyWait
    \/ KeyPickUp
    \/ KeyDrop
    \/ KeyUse
    \/ KeyStairs
    \/ KeyCharacter
    \/ KeyFullscreen
    \/ KeyEscape
    \/ KeyOther
    \/ AiStep
    \/ MenuNewGame
    \/ MenuContinue
    \/ MenuQuit

Spec == Init /\ [][Next]_vars

(***************************************************************************)
(* The AI evaluations of one monster: cast_confuse and ai_take_turn applied *)
(* to a monster that starts Basic or some turns into a confusion.          *)
(***************************************************************************)
MaxConfused == 2
MaxTurns == 13

\* The AI states the monster starts in.
StartAis ==
    {AiBasic} \cup
    {AiConfused(prev, n) : prev \in {AiBasic, AiConfused(AiBasic, 0)},
                           n \in 0..MaxConfused}

InitMonster ==
    \E ai \in StartAis :
        LET objs == <<Player(4, 2), [Orc(1, 1) EXCEPT !.ai = Some(ai)]>>
        IN /\ objects = objs
           /\ inventory = <<>>
           /\ map = MapOf(FloorA)
           /\ log = <<>>
           /\ dungeon_level = 1
           /\ fov = compute_fov(MapOf(FloorA), 4, 2)
           /\ previous_player_position = <<4, 2>>
           /\ pc = "monster"
           /\ ai_id = 2
           /\ ai_len = 2
           /\ player_action = "TookTurn"
           /\ savegame = None
           /\ steps = 0
           /\ hist = NoHist(objs, <<>>)
           /\ generation = NoGeneration

\* cast_confuse with the monster as the target chosen, while it is Basic.
ConfuseCast ==
    /\ pc = "monster"
    /\ steps < MaxTurns
    /\ objects[ai_id].ai = Some(AiBasic)
    /\ \E r \in {cast_confuse(World, Some(ai_id))} :
           /\ Commit(r.w)
           /\ hist' = HistOf(r.w, "cast", None, hist.acted,
                             [SameConf(r.w) EXCEPT
                                 ![hist.oid[ai_id]] =
                                     ConfOfAi(r.w.objects[ai_id].ai)])
    /\ steps' = steps + 1
    /\ UNCHANGED <<previous_player_position, pc, ai_id, ai_len,
                   player_action, savegame>>
    /\ UNCHANGED generation

\* ai_take_turn for the monster; dx and dy are its random draws.
AiEvaluation ==
    /\ pc = "monster"
    /\ steps < MaxTurns
    /\ \E dx \in -1..1, dy \in -1..1 :
           \E w \in {ai_take_turn(World, ai_id, dx, dy)} :
               /\ Commit(w)
               /\ hist' = AiHist(w, ai_id)
    /\ steps' = steps + 1
    /\ UNCHANGED <<previous_player_position, pc, ai_id, ai_len,
                   player_action, savegame>>
    /\ UNCHANGED generation

NextMonster == ConfuseCast \/ AiEvaluation

SpecMonster == InitMonster /\ [][NextMonster]_vars

(***************************************************************************)
(* level_up and attack applied to drawn fighters and equipment.            *)
(***************************************************************************)
MaxLevel == 2
MaxCalls == 2

\* The xp the level-up check needs at a level.
Threshold(level) == LEVEL_UP_BASE + level * LEVEL_UP_FACTOR

Inventories ==
    {<<>>,
     <<ItemObject("Sword", 0, 0), ItemObject("Shield", 0, 0)>>,
     <<[ItemObject("Sword", 0, 0) EXCEPT !.equipment[1].equipped = TRUE],
       [ItemObject("Shield", 0, 0) EXCEPT !.equipment[1].equipped = TRUE]>>}

InitCalls ==
    \E level \in 1..MaxLevel, dxp \in {-1, 0, 5}, twice \in BOOLEAN,
       pp \in {5, 10}, mp \in {4, 10}, md \in {3, 12}, mhp \in {7, 20},
       inv \in Inventories :
        LET xp == Threshold(level) + dxp
                  + (IF twice THEN Threshold(level + 1) ELSE 0)
            player == [Player(3, 2) EXCEPT
                          !.level = level,
                          !.fighter = Some(NewFighter(30, 30, 1, pp,
                                                      "Player", xp))]
            monster == [Orc(4, 2) EXCEPT
                           !.fighter = Some(NewFighter(mhp, 20, md, mp,
                                                       "Monster", 35))]
        IN /\ objects = <<player, monster>>
           /\ inventory = inv
           /\ map = MapOf(FloorA)
           /\ log = <<>>
           /\ dungeon_level = 1
           /\ fov = {}
           /\ previous_player_position = <<3, 2>>
           /\ pc = "calls"
           /\ ai_id = 1
           /\ ai_len = 0
           /\ player_action = "DidnTakeTurn"
           /\ savegame = None
           /\ steps = 0
           /\ hist = NoHist(<<player, monster>>, inv)
           /\ generation = NoGeneration

\* level_up called for the player; choice is the stat the menu returns.
CallLevelUp ==
    /\ pc = "calls"
    /\ steps < MaxCalls
    /\ \E choice \in 0..2 :
           \E w \in {level_up(World, choice)} :
               /\ Commit(w)
               /\ hist' = HistOf(w, "level_up", Some([choice |-> choice]),
                                 <<>>, SameConf(w))
    /\ steps' = steps + 1
    /\ UNCHANGED <<previous_player_position, pc, ai_id, ai_len,
                   player_action, savegame>>
    /\ UNCHANGED generation

\* attack called for a living attacker and a target that is a Fighter with
\* hp > 0 (what player_move_or_attack and ai_basic call it with).
CallAttack ==
    /\ pc = "calls"
    /\ steps < MaxCalls
    /\ \E a, t \in 1..Len(objects) :
           /\ IsSome(mut_two(a, t, Places(objects)))
           /\ PLAYER \in {a, t}
           /\ IsSome(objects[a].fighter) /\ objects[a].fighter[1].hp > 0
           /\ IsSome(objects[t].fighter) /\ objects[t].fighter[1].hp > 0
           /\ \E w \in {attack(World, a, t)} :
                  /\ Commit(w)
                  /\ hist' = HistOf(w, "attack",
                                    Some([attacker |-> a, target |-> t]),
                                    <<>>, SameConf(w))
    /\ steps' = steps + 1
    /\ UNCHANGED <<previous_player_position, pc, ai_id, ai_len,
                   player_action, savegame>>
    /\ UNCHANGED generation

NextCalls == CallLevelUp \/ CallAttack

SpecCalls == InitCalls /\ [][NextCalls]_vars

(***************************************************************************)
(* Uses and pick-ups of items: the iterations of play_game in which the    *)
(* player uses an item of the inventory or picks an item up, from a room   *)
(* that spans the grid with a monster at a drawn distance, and from a full *)
(* pack.                                                                   *)
(***************************************************************************)
\* The room: every cell inside the border of the grid.
FieldFloor == (1..(MAP_WIDTH - 2)) \X (1..(MAP_HEIGHT - 2))

\* The room with a pillar that hides the far side from its west end.
PillarFloor == FieldFloor \ {<<3, 1>>, <<3, 2>>}

\* Where the monster stands: next to the player, across the room, and in
\* the east column of the room.
MonsterCells ==
    {<<2, 1>>, <<4, 3>>} \cup ({MAP_WIDTH - 2} \X (1..(MAP_HEIGHT - 2)))

InitItemsGame(objs, inv, floor) ==
    /\ objects = objs
    /\ inventory = inv
    /\ map = MapOf(floor)
    /\ log = <<>>
    /\ dungeon_level = 4
    /\ fov = {}
    /\ previous_player_position = <<-1, -1>>
    /\ pc = "top"
    /\ ai_id = 1
    /\ ai_len = 0
    /\ player_action = "DidnTakeTurn"
    /\ savegame = None
    /\ steps = 0
    /\ hist = NoHist(objs, inv)
    /\ generation = NoGeneration

\* The player at the west end of the room with a healing potion and a
\* scroll of lightning bolt, an orc somewhere in the room.
InitField ==
    \E hp \in {1, 60, 61, 100}, c \in MonsterCells,
       floor \in {FieldFloor, PillarFloor} :
        InitItemsGame(<<WithFighter(Player(1, 1), hp, 0),
                        WithFighter(Orc(c[1], c[2]), 50, 35),
                        Stairs(2, 3)>>,
                      <<ItemObject("Heal", 0, 0),
                        ItemObject("Lightning", 0, 0)>>,
                      floor)

\* The player, unhurt, with INVENTORY_MAX - 1 healing potions, standing on a
\* sword and a scroll.
InitPack ==
    InitItemsGame(<<Player(1, 1), ItemObject("Sword", 1, 1),
                    ItemObject("Lightning", 1, 1), Stairs(2, 3)>>,
                  [k \in 1..(INVENTORY_MAX - 1) |-> ItemObject("Heal", 0, 0)],
                  FieldFloor)

InitItems == InitField \/ InitPack

NextItems == Prologue \/ KeyUse \/ KeyPickUp \/ AiStep

SpecItems == InitItems /\ [][NextItems]_vars

(***************************************************************************)
(* Spells and melee: the iterations of play_game in which the player casts *)
(* a scroll or moves, in the room that spans the grid, with an orc at arm's *)
(* length and a troll further away.                                        *)
(***************************************************************************)
\* The monsters of the room: one blow kills the orc, one fireball the troll.
SpellFoes ==
    <<WithFighter(Orc(2, 1), 2, 35), WithFighter(Troll(4, 2), 20, 100)>>

\* The player at the west end of the room: frail and with some xp, with the
\* scrolls that damage, or unhurt, with two scrolls of confusion.
InitSpells ==
    \/ InitItemsGame(<<WithFighter(Player(1, 1), 20, 10)>> \o SpellFoes
                         \o <<Stairs(2, 3)>>,
                     <<ItemObject("Fireball", 0, 0),
                       ItemObject("Lightning", 0, 0)>>,
                     FieldFloor)
    \/ InitItemsGame(<<Player(1, 1)>> \o SpellFoes \o <<Stairs(2, 3)>>,
                     <<ItemObject("Confuse", 0, 0),
                       ItemObject("Confuse", 0, 0)>>,
                     FieldFloor)

NextSpells == Prologue \/ KeyMove \/ KeyUse \/ AiStep

SpecSpells == InitSpells /\ [][NextSpells]_vars

(***************************************************************************)
(* Leveling in play: the iterations of play_game of a player whose xp is   *)
(* just below a threshold, or covers two, with an orc that one blow kills. *)
(* check_for_event does not wait: an iteration in which no key was pressed *)
(* hands the default key to handle_keys.                                   *)
(***************************************************************************)
InitLevels ==
    \E xp \in {314, 315, 900} :
        InitItemsGame(<<WithFighter(Player(1, 1), 100, xp),
                        WithFighter(Orc(2, 1), 2, 35),
                        Stairs(2, 3)>>,
                      <<>>, FieldFloor)

\* The rest of an iteration in which no key was pressed.
KeyNone ==
    /\ pc = "keys"
    /\ \E r \in {handle_keys(World, [code |-> "other"])} :
           /\ Commit(r.w)
           /\ player_action' = r.action
           /\ hist' = HistOf(r.w, "none", None, <<>>, SameConf(r.w))
    /\ pc' = "top"
    /\ UNCHANGED <<previous_player_position, ai_id, ai_len, savegame, steps,
                   generation>>

NextLevels == Prologue \/ KeyNone \/ KeyMove \/ AiStep

SpecLevels == InitLevels /\ [][NextLevels]_vars

\* The loop of play_game runs on: an iteration begun is carried through,
\* whatever the key, and followed by the next.
LiveLevels ==
    /\ SpecLevels
    /\ WF_vars(Prologue)
    /\ WF_vars(KeyNone \/ KeyMove)
    /\ WF_vars(AiStep)

(***************************************************************************)
(* The Basic AI in play: the iterations of play_game of a player who waits *)
(* at the west end of a room with two pillars, a troll at arm's length and *)
(* an orc somewhere in the room.                                           *)
(***************************************************************************)
\* The room with a pillar next to the player and one that hides the east.
TwoPillarFloor == FieldFloor \ {<<2, 1>>, <<4, 2>>}

InitBasic ==
    \E hp \in {3, 100}, c \in TwoPillarFloor \ {<<1, 2>>, <<2, 2>>} :
        InitItemsGame(<<WithFighter(Player(1, 2), hp, 0),
                        Troll(2, 2), Orc(c[1], c[2]), Stairs(2, 3)>>,
                      <<>>, TwoPillarFloor)

NextBasic == Prologue \/ KeyWait \/ AiStep

SpecBasic == InitBasic /\ [][NextBasic]_vars

(***************************************************************************)
(* Map Generator: make_map, one iteration of its loop at a time, and        *)
(* place_objects, one spawn at a time.  The sizes of the rooms and the      *)
(* number of attempts are scaled down with the grid.                       *)
(***************************************************************************)
ROOM_MIN_SIZE == 2
ROOM_MAX_SIZE == 3
MAX_ROOMS == 2
MaxSpawns == 1

\* Rect::new
RectNew(x, y, w, h) == [x1 |-> x, y1 |-> y, x2 |-> x + w, y2 |-> y + h]

\* Rect::center
center(r) == <<(r.x1 + r.x2) \div 2, (r.y1 + r.y2) \div 2>>

\* Rect::intersects_with with strict comparisons.
intersects_with_strict(a, b) ==
    a.x1 < b.x2 /\ a.x2 > b.x1 /\ a.y1 < b.y2 /\ a.y2 > b.y1

\* Rect::intersects_with
intersects_with(a, b) ==
    a.x1 <= b.x2 /\ a.x2 >= b.x1 /\ a.y1 <= b.y2 /\ a.y2 >= b.y1

\* The cells create_room carves, and place_objects draws from.
Interior(room) ==
    ((room.x1 + 1)..(room.x2 - 1)) \X ((room.y1 + 1)..(room.y2 - 1))

\* The map with the cells of a set made floor.
Carve(m, cells) == [c \in Cells |-> IF c \in cells THEN TileEmpty ELSE m[c]]

\* create_room
create_room(room, m) == Carve(m, Interior(room))

\* create_h_tunnel
create_h_tunnel(x1, x2, y, m) == Carve(m, (Min(x1, x2)..Max(x1, x2)) \X {y})

\* create_v_tunnel
create_v_tunnel(y1, y2, x, m) == Carve(m, {x} \X (Min(y1, y2)..Max(y1, y2)))

\* The tunnels of make_map, both drawn from the centre of the previous room.
create_tunnels_from_previous(prev, new, coin, m) ==
    create_v_tunnel(prev[2], new[2], prev[1],
                    create_h_tunnel(prev[1], new[1], prev[2], m))

\* The tunnels of make_map from the centre of the previous room to the
\* centre of the new one; coin is the value of rand::random().
create_tunnels(prev, new, coin, m) ==
    IF coin
    THEN create_v_tunnel(prev[2], new[2], new[1],
                         create_h_tunnel(prev[1], new[1], prev[2], m))
    ELSE create_h_tunnel(prev[1], new[1], new[2],
                         create_v_tunnel(prev[2], new[2], prev[1], m))

\* place_objects: the largest numbers of monsters and of items of a room.
max_monsters(level) ==
    from_dungeon_level(<<<<1, 2>>, <<4, 3>>, <<6, 5>>>>, level)

max_items(level) == from_dungeon_level(<<<<1, 1>>, <<4, 2>>>>, level)

\* The kinds a weighted choice of place_objects can return at a level.
MonsterKinds(level) ==
    {"orc"} \cup (IF troll_chance(level) > 0 THEN {"troll"} ELSE {})

ItemKinds(level) ==
    {k \in {"Heal", "Lightning", "Fireball", "Confuse", "Sword", "Shield"} :
        item_chance(k, level) > 0}

\* One iteration of a spawn loop of place_objects without the test of
\* is_blocked.
place_object_unchecked(objs, m, x, y, o) == Append(objs, o)

\* One iteration of a spawn loop of place_objects: the entity o, created at
\* the drawn cell, is pushed if the cell is not blocked.
place_object(objs, m, x, y, o) ==
    IF ~is_blocked(x, y, m, objs) THEN Append(objs, o) ELSE objs

\* Vec::truncate that removes nothing.
truncate_keeps_all(objs, n) == objs

\* Vec::truncate
truncate(objs, n) == SubSeq(objs, 1, Min(n, Len(objs)))

\* The locals of make_map after the end of an iteration of its loop.
NextAttempt(g) ==
    [g EXCEPT !.phase = "rooms", !.attempts = @ + 1,
              !.monsters_left = 0, !.items_left = 0]

\* The spawns the numbers drawn by place_objects may still ask for (the
\* levels explored hold at most MaxSpawns spawned entities).
SpawnsLeft == Max(0, MaxSpawns - (Len(objects) - 1))

\* make_map up to its loop: the store truncated to the player, a map of
\* walls.
GenStart ==
    /\ pc = "make_map"
    /\ generation.phase = "idle"
    /\ objects' = truncate(objects, 1)
    /\ map' = [c \in Cells |-> TileWall]
    /\ generation' = [phase |-> "rooms", rooms |-> <<>>, attempts |-> 0,
                      starting_position |-> <<0, 0>>,
                      room |-> RectNew(0, 0, 0, 0),
                      monsters_left |-> 0, items_left |-> 0]
    /\ UNCHANGED <<inventory, log, dungeon_level, fov,
                   previous_player_position, pc, ai_id, ai_len,
                   player_action, savegame, steps, hist>>

\* The rooms an iteration of make_map can draw.
RoomDraws ==
    UNION {{RectNew(x, y, d[1], d[2]) :
                x \in 0..(MAP_WIDTH - d[1] - 1),
                y \in 0..(MAP_HEIGHT - d[2] - 1)} :
           d \in (ROOM_MIN_SIZE..ROOM_MAX_SIZE)
                     \X (ROOM_MIN_SIZE..ROOM_MAX_SIZE)}

\* `failed` of make_map: the new room intersects a room accepted before.
failed(new_room, rooms) ==
    \E k \in 1..Len(rooms) : intersects_with(new_room, rooms[k])

\* One iteration of the loop of make_map up to the spawn loops of
\* place_objects: the room drawn, rejected if it intersects an accepted
\* room, else carved, joined to the previous room and pushed, with the
\* numbers of monsters and items place_objects draws for it.
GenRoom ==
    /\ pc = "make_map"
    /\ generation.phase = "rooms"
    /\ generation.attempts < MAX_ROOMS
    /\ \/ /\ {new_room \in RoomDraws :
                 failed(new_room, generation.rooms)} # {}
          /\ generation' = NextAttempt(generation)
          /\ map' = map
       \/ \E new_room \in RoomDraws, coin \in BOOLEAN,
             num_monsters \in 0..Min(max_monsters(dungeon_level), SpawnsLeft),
             num_items \in 0..Min(max_items(dungeon_level), SpawnsLeft) :
              /\ ~failed(new_room, generation.rooms)
              /\ num_monsters + num_items <= SpawnsLeft
              /\ map' = IF generation.rooms = <<>>
                        THEN create_room(new_room, map)
                        ELSE create_tunnels(
                                 center(generation.rooms[Len(generation.rooms)]),
                                 center(new_room), coin,
                                 create_room(new_room, map))
              /\ \E g \in {[generation EXCEPT
                                !.rooms = Append(@, new_room),
                                !.starting_position =
                                    IF generation.rooms = <<>>
                                    THEN center(new_room) ELSE @,
                                !.room = new_room,
                                !.phase = "objects",
                                !.monsters_left = num_monsters,
                                !.items_left = num_items]} :
                     generation' = IF num_monsters = 0 /\ num_items = 0
                                   THEN NextAttempt(g) ELSE g
    /\ UNCHANGED <<objects, inventory, log, dungeon_level, fov,
                   previous_player_position, pc, ai_id, ai_len,
                   player_action, savegame, steps, hist>>

\* One iteration of the monster loop of place_objects.
GenMonster ==
    /\ pc = "make_map"
    /\ generation.phase = "objects"
    /\ generation.monsters_left > 0
    /\ \E c \in Interior(generation.room),
          kind \in MonsterKinds(dungeon_level) :
           objects' = place_object(objects, map, c[1], c[2],
                                   IF kind = "orc" THEN Orc(c[1], c[2])
                                   ELSE Troll(c[1], c[2]))
    /\ \E g \in {[generation EXCEPT !.monsters_left = @ - 1]} :
           generation' = IF g.monsters_left = 0 /\ g.items_left = 0
                         THEN NextAttempt(g) ELSE g
    /\ UNCHANGED <<inventory, map, log, dungeon_level, fov,
                   previous_player_position, pc, ai_id, ai_len,
                   player_action, savegame, steps, hist>>

\* One iteration of the item loop of place_objects.
GenItem ==
    /\ pc = "make_map"
    /\ generation.phase = "objects"
    /\ generation.monsters_left = 0
    /\ generation.items_left > 0
    /\ \E c \in Interior(generation.room), kind \in ItemKinds(dungeon_level) :
           objects' = place_object(objects, map, c[1], c[2],
                                   ItemObject(kind, c[1], c[2]))
    /\ \E g \in {[generation EXCEPT !.items_left = @ - 1]} :
           generation' = IF g.items_left = 0 THEN NextAttempt(g) ELSE g
    /\ UNCHANGED <<inventory, map, log, dungeon_level, fov,
                   previous_player_position, pc, ai_id, ai_len,
                   player_action, savegame, steps, hist>>

\* make_map after its loop: the player set to the starting position and the
\* stairs pushed at the centre of the last room.
GenFinish ==
    /\ pc = "make_map"
    /\ generation.phase = "rooms"
    /\ generation.attempts = MAX_ROOMS
    /\ generation.rooms # <<>>
    /\ \E last \in {center(generation.rooms[Len(generation.rooms)])} :
           objects' = Append([objects EXCEPT
                                 ![PLAYER].x = generation.starting_position[1],
                                 ![PLAYER].y = generation.starting_position[2]],
                             Stairs(last[1], last[2]))
    /\ generation' = [generation EXCEPT !.phase = "done"]
    /\ pc' = "generated"
    /\ UNCHANGED <<inventory, map, log, dungeon_level, fov,
                   previous_player_position, ai_id, ai_len,
                   player_action, savegame, steps, hist>>

\* The store next_level calls make_map with: the player where the stairs of
\* the level left are, a monster and an item of that level, its stairs.
OldStore ==
    <<Player(2, 2), Orc(1, 1), ItemObject("Heal", 2, 1), Stairs(2, 2)>>

\* next_level at its call of make_map for dungeon level 2.
InitMap ==
    /\ objects = OldStore
    /\ inventory = <<Dagger>>
    /\ map = MapOf(FieldFloor)
    /\ log = <<>>
    /\ dungeon_level = 2
    /\ fov = {}
    /\ previous_player_position = <<-1, -1>>
    /\ pc = "make_map"
    /\ ai_id = 1
    /\ ai_len = 0
    /\ player_action = "DidnTakeTurn"
    /\ savegame = None
    /\ steps = 0
    /\ hist = NoHist(OldStore, <<Dagger>>)
    /\ generation = NoGeneration

NextMap == GenStart \/ GenRoom \/ GenMonster \/ GenItem \/ GenFinish

SpecMap == InitMap /\ [][NextMap]_vars

(***************************************************************************)
(* place_objects on every dungeon level: the spawn loops for a small room, *)
(* the last of the level of a new game, with the numbers of monsters and   *)
(* items drawn for it.                                                     *)
(***************************************************************************)
MaxDepth == 9

\* A small room in the corner of the grid.
CornerRoom == RectNew(0, 0, ROOM_MAX_SIZE, ROOM_MIN_SIZE)

InitTables ==
    \E level \in 1..MaxDepth :
        \E num_monsters \in 0..Min(max_monsters(level), MaxSpawns),
           num_items \in 0..Min(max_items(level), MaxSpawns) :
            /\ num_monsters + num_items \in 1..MaxSpawns
            /\ objects = <<Player(0, 0)>>
            /\ inventory = <<Dagger>>
            /\ map = create_room(CornerRoom, [c \in Cells |-> TileWall])
            /\ log = <<>>
            /\ dungeon_level = level
            /\ fov = {}
            /\ previous_player_position = <<-1, -1>>
            /\ pc = "make_map"
            /\ ai_id = 1
            /\ ai_len = 0
            /\ player_action = "DidnTakeTurn"
            /\ savegame = None
            /\ steps = 0
            /\ hist = NoHist(<<Player(0, 0)>>, <<Dagger>>)
            /\ generation = [phase |-> "objects", rooms |-> <<CornerRoom>>,
                             attempts |-> MAX_ROOMS - 1,
                             starting_position |-> center(CornerRoom),
                             room |-> CornerRoom,
                             monsters_left |-> num_monsters,
                             items_left |-> num_items]

NextTables == GenMonster \/ GenItem \/ GenFinish

SpecTables == InitTables /\ [][NextTables]_vars

(***************************************************************************)
(* Walks on a generated level: the map make_map builds from a first room   *)
(* in the corner of the grid and any second room it accepts, the player at *)
(* the starting position, the stairs and an orc, Basic or Confused, in the *)
(* last room; the player moves and the orc takes its turns.                *)
(***************************************************************************)
\* The map of make_map after its loop accepted the rooms of a sequence,
\* coin the value of rand::random() for the tunnels of the second room.
MapOfRooms(rooms, coin) ==
    IF Len(rooms) = 1
    THEN create_room(rooms[1], [c \in Cells |-> TileWall])
    ELSE create_tunnels(center(rooms[1]), center(rooms[2]), coin,
                        create_room(rooms[2],
                                    create_room(rooms[1],
                                                [c \in Cells |-> TileWall])))

\* The cells of a map that are not blocked.
FloorOf(m) == {c \in Cells : ~m[c].blocked}

InitWalk ==
    \E new_room \in RoomDraws, coin \in BOOLEAN,
       ai \in {AiBasic, AiConfused(AiBasic, MaxConfused)} :
        \E rooms \in {IF failed(new_room, <<CornerRoom>>)
                      THEN <<CornerRoom>>
                      ELSE <<CornerRoom, new_room>>} :
            \E c \in Interior(rooms[Len(rooms)]) \ {center(CornerRoom)} :
                InitItemsGame(
                    <<Player(center(CornerRoom)[1], center(CornerRoom)[2]),
                      [Orc(c[1], c[2]) EXCEPT !.ai = Some(ai)],
                      Stairs(center(rooms[Len(rooms)])[1],
                             center(rooms[Len(rooms)])[2])>>,
                    <<>>, FloorOf(MapOfRooms(rooms, coin)))

NextWalk == Prologue \/ KeyMove \/ AiStep

SpecWalk == InitWalk /\ [][NextWalk]_vars

(***************************************************************************)
(* Corridors: make_map of a new game from the last iteration of its loop   *)
(* on, the attempts before having accepted one room, any room of the grid, *)
(* for which place_objects drew no monster and no item.                    *)
(***************************************************************************)
InitCorridors ==
    \E first \in RoomDraws :
        /\ objects = <<Player(0, 0)>>
        /\ inventory = <<Dagger>>
        /\ map = create_room(first, [c \in Cells |-> TileWall])
        /\ log = <<>>
        /\ dungeon_level = 1
        /\ fov = {}
        /\ previous_player_position = <<-1, -1>>
        /\ pc = "make_map"
        /\ ai_id = 1
        /\ ai_len = 0
        /\ player_action = "DidnTakeTurn"
        /\ savegame = None
        /\ steps = 0
        /\ hist = NoHist(<<Player(0, 0)>>, <<Dagger>>)
        /\ generation = [phase |-> "rooms", rooms |-> <<first>>,
                         attempts |-> MAX_ROOMS - 1,
                         starting_position |-> center(first),
                         room |-> first,
                         monsters_left |-> 0, items_left |-> 0]

NextCorridors == GenRoom \/ GenMonster \/ GenItem \/ GenFinish

SpecCorridors == InitCorridors /\ [][NextCorridors]_vars

(***************************************************************************)
(* Properties of the game in play.                                         *)
(***************************************************************************)
\* The identities the history record knows.
Identities == 1..(hist.nid - 1)

\* C1: the death callback runs at most once for every entity, whatever the
\* sequence of melee attacks, lightning bolts and fireballs: an entity of
\* the store that is a Fighter at hp <= 0 died exactly once, and no entity,
\* in the store or gone from it, died twice (a second death would be a
\* second death message and a second xp reward).
C1_DeathAtMostOnce ==
    /\ \A e \in Identities : hist.deaths[e] <= 1
    /\ \A i \in 1..Len(objects) :
           IsSome(objects[i].fighter) /\ objects[i].fighter[1].hp <= 0
               => hist.deaths[hist.oid[i]] = 1

\* C1 witness: a fireball was cast over the remains of a monster that had
\* died before, and killed the player and the other monster.
C1_Witness ==
    /\ IsSome(hist.use)
    /\ hist.use[1].item = Some("Fireball")
    /\ hist.use[1].result = "UsedUp"
    /\ Len(inventory) = 1
    /\ \E i, j \in 2..Len(objects) :
           /\ objects[i].name = "remains of troll"
           /\ objects[j].name = "remains of orc"
           /\ hist.deaths[hist.oid[i]] = 1
           /\ hist.deaths[hist.oid[j]] = 1
    /\ ~objects[PLAYER].alive
    /\ hist.deaths[hist.oid[PLAYER]] = 1

\* The operations of handle_keys that return DidntTakeTurn: pick-up, drop,
\* descend-stairs, view-character, toggle-fullscreen, unrecognised input,
\* and an item use that was cancelled (or whose menu selected nothing).
TookNoTurn(h) ==
    \/ h.op \in {"g", "d", "s", "c", "fullscreen", "other"}
    \/ h.op = "i" /\ (~IsSome(h.use) \/ h.use[1].result = "Cancelled")

\* C2 as stated: the AI pass is entered only when the player is alive and
\* the action took a turn, and while the player is dead no AI entity moves
\* or attacks.
C2_NoAiActsOnceDead ==
    [][/\ pc = "keys" /\ pc' = "ai"
              => objects'[PLAYER].alive /\ player_action' = "TookTurn"
       /\ pc = "keys" /\ TookNoTurn(hist') => pc' # "ai"
       /\ pc = "ai" /\ ~objects[PLAYER].alive => objects' = objects]_vars

\* C2, amended: the AI pass is entered only when the player is alive and the
\* action took a turn; after an action that took no turn no AI entity acts;
\* while the player is dead no AI pass starts, and the entities that are
\* still to act in the pass in which the player died take their turn but
\* neither damage the player nor cause a death.
C2_AiPassEntry ==
    [][/\ pc = "keys" /\ pc' = "ai"
              => objects'[PLAYER].alive /\ player_action' = "TookTurn"
       /\ pc = "keys" /\ TookNoTurn(hist')
              => pc' # "ai" /\ player_action' = "DidnTakeTurn"
       /\ pc # "ai" /\ ~objects[PLAYER].alive /\ pc' = "ai"
              => hist'.op \in {"new", "load"}
       /\ pc = "ai" /\ ~objects[PLAYER].alive
              => /\ objects'[PLAYER] = objects[PLAYER]
                 /\ hist'.deaths = hist.deaths]_vars

\* C2 witness: the player died in an AI pass and the entity after the
\* killer in the store took its turn in that pass (the orc stepped towards
\* the player).
C2_Witness ==
    /\ ~objects[PLAYER].alive
    /\ hist.op = "ai"
    /\ Len(hist.acted) = 2
    /\ \E i \in 2..Len(objects) :
           /\ objects[i].name = "orc"
           /\ hist.oid[i] = hist.acted[2]
           /\ Pos(objects[i]) = <<4, 3>>

\* The identities of the entities with an AI capability among the first
\* upto entities of the store, in index order.
PassOrder(upto) ==
    LET idx == SelectSeq([k \in 1..upto |-> k],
                         LAMBDA k : IsSome(objects[k].ai))
    IN [j \in 1..Len(idx) |-> hist.oid[idx[j]]]

\* C3: in an AI pass the entities that have acted so far are exactly the
\* entities with an AI capability at the indices already passed, each once
\* and in index order; the pass starts after the key of the turn has been
\* handled, and when it ends every entity with an AI capability has acted
\* exactly once.
C3_EveryAiOnceInOrder ==
    /\ pc = "ai" => /\ ai_len = Len(objects)
                    /\ ai_id <= ai_len
                    /\ IsSome(objects[ai_id].ai)
                    /\ hist.acted = PassOrder(ai_id - 1)
                    /\ (hist.acted = <<>>) = (hist.op # "ai")
                    /\ player_action = "TookTurn"
    /\ hist.op = "ai" /\ pc # "ai" => hist.acted = PassOrder(Len(objects))

\* C3 witness: a pass over a store with two AI entities has ended.
C3_Witness ==
    /\ hist.op = "ai"
    /\ pc = "top"
    /\ Len(hist.acted) = 2
    /\ hist.acted[1] # hist.acted[2]

\* C4 as stated: in the AI pass of a turn in which the player's position
\* changed, the Visibility Field is the one computed from the player's new
\* position.
C4_FovRecomputedBeforeAi ==
    pc = "ai" /\ Pos(objects[PLAYER]) # previous_player_position
        => fov = compute_fov(map, objects[PLAYER].x, objects[PLAYER].y)

\* C8: the inventory never holds two equipped items of the same slot.
C8_OneEquippedPerSlot ==
    \A a, b \in 1..Len(inventory) :
        /\ a # b
        /\ IsSome(inventory[a].equipment) /\ inventory[a].equipment[1].equipped
        /\ IsSome(inventory[b].equipment) /\ inventory[b].equipment[1].equipped
        => inventory[a].equipment[1].slot # inventory[b].equipment[1].slot

\* C8 witness: the shield was equipped into the hand that held the equipped
\* dagger; the dagger is dequipped and the shield is equipped.
C8_Witness ==
    /\ IsSome(hist.use)
    /\ hist.use[1].item = Some("Shield")
    /\ hist.use[1].result = "UsedAndKept"
    /\ \E a, b \in 1..Len(inventory) :
           /\ inventory[a].name = "dagger"
           /\ ~inventory[a].equipment[1].equipped
           /\ inventory[b].name = "shield"
           /\ inventory[b].equipment[1].equipped
           /\ inventory[a].equipment[1].slot = inventory[b].equipment[1].slot

\* An item but for its equipped flag.
Unequipped(it) ==
    IF IsSome(it.equipment)
    THEN [it EXCEPT !.equipment[1].equipped = FALSE]
    ELSE it

\* C9: a use of the inventory item u.id changes the inventory by its outcome
\* only: UsedUp removes that item and keeps the others in their order,
\* UsedAndKept keeps every item at its place (only equipped flags change),
\* Cancelled leaves the inventory as it is and takes no turn.
C9_UseItemOutcome ==
    [][pc = "keys" /\ hist'.op = "i" /\ IsSome(hist'.use) =>
           LET u == hist'.use[1]
               n == Len(inventory)
           IN CASE u.result = "UsedUp" ->
                       /\ Len(inventory') = n - 1
                       /\ \A k \in 1..(n - 1) :
                              inventory'[k] =
                                  inventory[IF k < u.id THEN k ELSE k + 1]
                       /\ player_action' = "TookTurn"
                [] u.result = "UsedAndKept" ->
                       /\ Len(inventory') = n
                       /\ hist'.iid = hist.iid
                       /\ \A k \in 1..n :
                              Unequipped(inventory'[k]) = Unequipped(inventory[k])
                       /\ player_action' = "TookTurn"
                [] u.result = "Cancelled" ->
                       /\ inventory' = inventory
                       /\ player_action' = "DidnTakeTurn"
                       /\ pc' # "ai"
                [] OTHER -> FALSE]_vars

\* C9 witness: the first item of an inventory of three was used up.
C9_Witness ==
    /\ hist.op = "i"
    /\ IsSome(hist.use)
    /\ hist.use[1].result = "UsedUp"
    /\ hist.use[1].id = 1
    /\ Len(inventory) = 2
    /\ inventory[1].name = "dagger"

\* C10: after a load the Entity Store, the inventory, the Tile Grid, the
\* message log and the dungeon level are those the game was saved with.
C10_LoadReproducesSave ==
    hist.op = "load" =>
        /\ IsSome(hist.saved)
        /\ hist.saved[1] = [objects |-> objects, inventory |-> inventory,
                            map |-> map, log |-> log,
                            dungeon_level |-> dungeon_level]

\* C10 witness: a game was loaded that has an entity whose Confused AI is
\* nested in a Confused AI, explored and unexplored tiles, messages in the
\* log and items in the inventory.
C10_Witness ==
    /\ hist.op = "load"
    /\ \E i \in 1..Len(objects) :
           /\ IsSome(objects[i].ai)
           /\ objects[i].ai[1].tag = "Confused"
           /\ objects[i].ai[1].previous_ai.tag = "Confused"
    /\ \E c, d \in Cells : map[c].explored /\ ~map[d].explored
    /\ log # <<>>
    /\ inventory # <<>>

\* C11 as stated: every failure of save_game or load_game leaves the program
\* running (at its main menu); none terminates it.
C11_PersistenceFailureRecovered ==
    /\ pc # "crashed"
    /\ hist.op \in {"save failed", "load failed"} => pc = "menu"

\* C12: index 0 of the Entity Store (PLAYER) holds the player entity, with
\* the identity the player had when the game started, after every pick-up
\* (swap_remove), drop, kill and level generation (truncate).
C12_PlayerAtIndex0 ==
    /\ Len(objects) >= 1
    /\ objects[PLAYER].name = "player"
    /\ IsSome(objects[PLAYER].fighter)
    /\ objects[PLAYER].fighter[1].on_death = "Player"
    /\ hist.oid[PLAYER] = 1
    /\ \A i \in 2..Len(objects) :
           objects[i].name # "player" /\ hist.oid[i] # 1

\* C12 witness: a pick-up removed an entity that was not the last of the
\* store, so that swap_remove moved the last entity into its place.
C12_Witness ==
    /\ hist.op = "g"
    /\ Len(objects) >= 2
    /\ \E k \in 1..Len(inventory) : hist.iid[k] < hist.oid[Len(objects)]
    /\ \E i, j \in 1..Len(objects) : i < j /\ hist.oid[i] > hist.oid[j]

\* The last n entries of a sequence.
LastN(seq, n) == SubSeq(seq, Len(seq) - n + 1, Len(seq))

\* C13: the log never holds more than MSG_HEIGHT entries, and a step that
\* adds messages keeps the entries it had in their order, dropping entries
\* only from the old end and only when the log is full afterwards: the log
\* is k new messages after the most recent entries it had before.  (A new
\* game starts an empty log.)
C13_LogBoundedFifo ==
    [][/\ Len(log') <= MSG_HEIGHT
       /\ hist'.op # "new" =>
              \E k \in 0..Len(log') :
                  LET kept == Len(log') - k
                  IN /\ kept <= Len(log)
                     /\ SubSeq(log', 1, kept) = LastN(log, kept)
                     /\ kept < Len(log) => Len(log') = MSG_HEIGHT
                     /\ k = 0 => log' = log]_vars

\* C13 witness: the lightning bolt and the fireball were both used; the log
\* is full and the messages of the lightning bolt were evicted.
C13_Witness ==
    /\ Len(log) = MSG_HEIGHT
    /\ IsSome(hist.use)
    /\ hist.use[1].item = Some("Fireball")
    /\ \A k \in 1..Len(inventory) :
           inventory[k].name \notin {"scroll of lightning bolt",
                                     "scroll of fireball"}
    /\ \A k \in 1..Len(log) : log[k][2] # "LIGHT_BLUE"
    /\ log[MSG_HEIGHT][2] # "ORANGE"

\* C18 as stated: in the steps of a game (a new game and a load install the
\* grid of another game) no cell's explored flag goes from true to false,
\* and after render_all every cell of the Visibility Field is explored.
C18_ExploredNeverReverts ==
    [][/\ hist'.op \notin {"new", "load"} =>
              \A c \in Cells : map[c].explored => map'[c].explored
       /\ hist'.op = "prologue" =>
              \A c \in fov' : map'[c].explored]_vars

\* C18 amended: the same, for the steps that stay on the dungeon level;
\* next_level installs a newly generated grid, none of whose cells is
\* explored before the next render_all.
C18_ExploredKeptOnLevel ==
    [][/\ hist'.op \notin {"new", "load"} /\ dungeon_level' = dungeon_level =>
              \A c \in Cells : map[c].explored => map'[c].explored
       /\ dungeon_level' # dungeon_level /\ hist'.op = "s" =>
              \A c \in Cells : ~map'[c].explored
       /\ hist'.op = "prologue" =>
              \A c \in fov' : map'[c].explored]_vars

\* C18 witness: after a move of the player render_all left a cell explored
\* that is no longer in the Visibility Field.
C18_Witness ==
    /\ hist.op = "prologue"
    /\ steps >= 1
    /\ objects[PLAYER].alive
    /\ \E c \in Cells : map[c].explored /\ c \notin fov
    /\ \A c \in fov : map[c].explored

\* The monsters whose death callback ran in the step.
Killed ==
    {k \in 2..Len(objects) :
        hist'.deaths[hist.oid[k]] > hist.deaths[hist.oid[k]]}

\* C23: in the steps of a game (a new game and a load install another
\* store) the length of the Entity Store changes only by a pick-up (minus
\* one), a drop (plus one) and the generation of a level; a step that kills
\* a monster keeps the length, and the monster stays the entity at its index
\* as inert remains: not alive, without Fighter and AI, not blocking, named
\* "remains of" its name, at its position.
C23_RemainsInPlace ==
    [][hist'.op \notin {"new", "load"} =>
           /\ \/ Len(objects') = Len(objects)
              \/ /\ pc = "keys" /\ hist'.op = "g"
                 /\ Len(objects') = Len(objects) - 1
              \/ /\ pc = "keys" /\ hist'.op = "d"
                 /\ Len(objects') = Len(objects) + 1
              \/ /\ pc = "keys" /\ hist'.op = "s"
                 /\ dungeon_level' = dungeon_level + 1
           /\ Killed # {} => Len(objects') = Len(objects)
           /\ \A k \in Killed :
                  /\ hist'.oid[k] = hist.oid[k]
                  /\ objects[k].alive
                  /\ objects'[k] =
                         [objects[k] EXCEPT !.alive = FALSE, !.fighter = None,
                                            !.ai = None, !.blocks = FALSE,
                                            !.char = "%", !.color = "DARK_RED",
                                            !.name = RemainsOf(objects[k].name)]
                  /\ Pos(objects'[k]) = Pos(objects[k])]_vars

\* C23 witness: the troll, killed where it stood, is the remains at its
\* index of a store of unchanged length.
C23_Witness ==
    /\ Len(objects) = 4
    /\ objects[2].name = RemainsOf("troll")
    /\ Pos(objects[2]) = <<4, 2>>
    /\ ~objects[2].alive
    /\ ~IsSome(objects[2].fighter)
    /\ hist.deaths[hist.oid[2]] = 1
    /\ objects[3].name = "orc"

\* The player, alive, stands on the cell of an entity named stairs.
OnStairs ==
    /\ objects[PLAYER].alive
    /\ \E k \in 1..Len(objects) :
           objects[k].name = "stairs" /\ Pos(objects[k]) = Pos(objects[PLAYER])

\* The effective max hp of the player: the base value and the bonuses of the
\* equipped items.
PlayerMaxHp ==
    objects[PLAYER].fighter[1].base_max_hp
    + SumSeq([k \in 1..Len(inventory) |->
                 IF IsSome(inventory[k].equipment)
                    /\ inventory[k].equipment[1].equipped
                 THEN inventory[k].equipment[1].max_hp_bonus ELSE 0])

\* C25: the descend key pressed on the stairs raises dungeon_level by one,
\* keeps the player (level, xp and base stats as they were, hp raised by
\* half the effective max hp and clamped to it) as the first entity of a
\* store whose other entities are all new, and keeps the inventory; pressed
\* anywhere else it changes nothing.  In the steps of a game (a new game
\* and a load install the level of another game) dungeon_level changes by
\* that key only, and never goes down.
C25_Descend ==
    [][/\ pc = "keys" /\ hist'.op = "s" =>
              IF OnStairs
              THEN /\ dungeon_level' = dungeon_level + 1
                   /\ inventory' = inventory
                   /\ hist'.oid[PLAYER] = hist.oid[PLAYER]
                   /\ \A k \in 2..Len(objects') : hist'.oid[k] >= hist.nid
                   /\ \E k \in 2..Len(objects') : objects'[k].name = "stairs"
                   /\ objects'[PLAYER] =
                          [objects[PLAYER] EXCEPT
                              !.x = objects'[PLAYER].x,
                              !.y = objects'[PLAYER].y,
                              !.fighter[1].hp =
                                  Min(@ + (PlayerMaxHp \div 2), PlayerMaxHp)]
              ELSE /\ objects' = objects
                   /\ inventory' = inventory
                   /\ map' = map
                   /\ log' = log
                   /\ dungeon_level' = dungeon_level
       /\ hist'.op \notin {"new", "load"} =>
              /\ dungeon_level' >= dungeon_level
              /\ dungeon_level' # dungeon_level =>
                     pc = "keys" /\ hist'.op = "s"]_vars

\* C25 witness: the player, who stepped onto the stairs with 80 hp of 100,
\* is on dungeon level 9 with 100 hp and the inventory of three items.
C25_Witness ==
    /\ hist.op = "s"
    /\ dungeon_level = 9
    /\ steps = 2
    /\ objects[PLAYER].fighter[1].hp = 100
    /\ Len(inventory) = 3
    /\ objects[Len(objects)].name = "stairs"

\* C27: the assertion of mut_two has not failed: no attack of the player
\* and no attack of a monster asked for the same index twice.  For the
\* entities of the store, mut_two of two different indices is the pair of
\* the elements at these indices, in that order, and of the same index
\* twice it fails.
C27_DistinctIndices ==
    /\ ~hist.panic
    /\ \A i, j \in 1..Len(objects) :
           mut_two(i, j, objects) =
               IF i = j THEN None ELSE Some(<<objects[i], objects[j]>>)

\* C27 witness: the player has struck the troll, the troll has struck back
\* and killed the player, and no assertion failed.
C27_Witness ==
    /\ hist.op = "ai"
    /\ ~hist.panic
    /\ ~objects[PLAYER].alive
    /\ objects[2].name = "troll"
    /\ objects[2].fighter[1].hp = 28
    /\ objects[2].fighter[1].xp > 100

(***************************************************************************)
(* Properties of the AI evaluations of a monster.                          *)
(***************************************************************************)
\* C5: an entity made Confused with n >= 0 turns remaining stays Confused
\* with the same previous state through its random-walk turns, its
\* remaining turns going down by one with each; it takes n + 1 random-walk
\* turns, and the evaluation that follows takes no step and makes its AI the
\* previous state.
C5_ConfusedTurns ==
    /\ \A i \in 1..Len(objects) :
           LET c == hist.conf[hist.oid[i]]
           IN IsSome(objects[i].ai) /\ objects[i].ai[1].tag = "Confused"
                  /\ c.n0 >= 0
              => /\ objects[i].ai[1].num_turns = c.n0 - c.walks
                 /\ objects[i].ai[1].previous_ai = c.prev
                 /\ c.walks <= c.n0 + 1
    /\ IsSome(hist.revert) /\ hist.revert[1].n0 >= 0
           => /\ hist.revert[1].walks = hist.revert[1].n0 + 1
              /\ hist.revert[1].ai = Some(hist.revert[1].prev)
              /\ ~hist.revert[1].moved

\* C5 witness: a confusion of 2 remaining turns ended, on the 4th
\* evaluation, after 3 random-walk turns.
C5_Witness ==
    /\ IsSome(hist.revert)
    /\ hist.revert[1].n0 = 2
    /\ hist.revert[1].walks = 3
    /\ steps = 4

(***************************************************************************)
(* Properties of level_up and attack.                                      *)
(***************************************************************************)
\* C6: level_up leaves everything as it is when the player's xp is below
\* 200 + level * 150; otherwise the level goes up by one, the xp goes down
\* by that threshold, and the chosen stat alone is boosted (0: base_max_hp
\* and hp by 20; 1: base_power by 1; 2: base_defense by 1).
C6_LevelUpCheck ==
    [][pc = "calls" /\ hist'.op = "level_up" =>
           LET p == objects[PLAYER]
               f == p.fighter[1]
               threshold == 200 + p.level * 150
               choice == hist'.use[1].choice
           IN IF f.xp < threshold
              THEN /\ objects' = objects
                   /\ log' = log
              ELSE /\ objects'[PLAYER] =
                          [p EXCEPT
                              !.level = p.level + 1,
                              !.fighter = Some(
                                  [f EXCEPT
                                      !.xp = f.xp - threshold,
                                      !.base_max_hp =
                                          IF choice = 0 THEN @ + 20 ELSE @,
                                      !.hp = IF choice = 0 THEN @ + 20 ELSE @,
                                      !.base_power =
                                          IF choice = 1 THEN @ + 1 ELSE @,
                                      !.base_defense =
                                          IF choice = 2 THEN @ + 1 ELSE @])]
                   /\ \A i \in 2..Len(objects) : objects'[i] = objects[i]
                   /\ Len(objects') = Len(objects)
                   /\ inventory' = inventory]_vars

\* C6 witness: the check levelled a player of level 1 with 350 xp up to
\* level 2 with 0 xp.
C6_Witness ==
    /\ hist.op = "level_up"
    /\ steps = 1
    /\ objects[PLAYER].level = 2
    /\ objects[PLAYER].fighter[1].xp = 0

\* The sum of a bonus over the equipped items of the inventory from index k.
RECURSIVE EquippedBonus(_, _, _)
EquippedBonus(inv, field, k) ==
    IF k > Len(inv) THEN 0
    ELSE (IF IsSome(inv[k].equipment) /\ inv[k].equipment[1].equipped
          THEN inv[k].equipment[1][field] ELSE 0)
         + EquippedBonus(inv, field, k + 1)

\* The effective value of a stat: the base value, plus the bonuses of the
\* equipped items for the player.
Effective(o, inv, base, bonus) ==
    o.fighter[1][base]
    + (IF o.name = "player" THEN EquippedBonus(inv, bonus, 1) ELSE 0)

\* C7: attack takes the attacker's effective power minus the target's
\* effective defense from the target's hp if that damage is positive (a
\* monster brought to hp <= 0 becomes remains), and changes no entity and
\* causes no death otherwise.
C7_AttackDamage ==
    [][pc = "calls" /\ hist'.op = "attack" =>
           LET a == hist'.use[1].attacker
               t == hist'.use[1].target
               damage == Effective(objects[a], inventory, "base_power",
                                   "power_bonus")
                         - Effective(objects[t], inventory, "base_defense",
                                     "defense_bonus")
               hp == objects[t].fighter[1].hp
           IN IF damage > 0
              THEN IF IsSome(objects'[t].fighter)
                   THEN /\ objects'[t].fighter[1].hp = hp - damage
                        /\ (hp - damage > 0) = (hist'.deaths = hist.deaths)
                   ELSE /\ hp - damage <= 0
                        /\ hist'.deaths[hist.oid[t]] = 1
              ELSE /\ objects' = objects
                   /\ hist'.deaths = hist.deaths]_vars

\* C7 witness: a player of base power 5 with a sword (+3) equipped hit a
\* monster of defense 3 and 20 hp, which is left with 15 hp.
C7_Witness ==
    /\ hist.op = "attack"
    /\ steps = 1
    /\ hist.use[1].attacker = PLAYER
    /\ objects[PLAYER].fighter[1].base_power = 5
    /\ inventory # <<>> /\ inventory[1].equipment[1].equipped
    /\ objects[2].fighter = Some(NewFighter(15, 20, 3, 4, "Monster", 35))

(***************************************************************************)
(* Properties of the uses and pick-ups of items.                           *)
(***************************************************************************)
\* The entities of the store that are items lying where the player stands.
ItemsHere ==
    {i \in 1..Len(objects) :
        Pos(objects[i]) = Pos(objects[PLAYER]) /\ IsSome(objects[i].item)}

\* C14: the inventory never holds more than INVENTORY_MAX (26) items.  A
\* pick-up with 26 items held changes neither the store nor the inventory
\* and adds a message to the log; a pick-up with fewer takes exactly one
\* entity out of the store (every other entity stays, unchanged) and puts
\* it at the end of the inventory (the items held stay, unchanged).  No
\* pick-up takes a turn.
C14_PickUp ==
    [][/\ Len(inventory') <= INVENTORY_MAX
       /\ pc = "keys" /\ hist'.op = "g" /\ objects[PLAYER].alive
              /\ ItemsHere # {} =>
              /\ player_action' = "DidnTakeTurn"
              /\ IF Len(inventory) >= INVENTORY_MAX
                 THEN /\ objects' = objects
                      /\ inventory' = inventory
                      /\ map' = map
                      /\ log' # log
                 ELSE \E id \in ItemsHere :
                          LET n == Len(inventory)
                          IN /\ Len(objects') = Len(objects) - 1
                             /\ Len(inventory') = n + 1
                             /\ SubSeq(inventory', 1, n) = inventory
                             /\ Unequipped(inventory'[n + 1])
                                    = Unequipped(objects[id])
                             /\ hist'.iid[n + 1] = hist.oid[id]
                             /\ \A i \in (1..Len(objects)) \ {id} :
                                    \E j \in 1..Len(objects') :
                                        /\ objects'[j] = objects[i]
                                        /\ hist'.oid[j] = hist.oid[i]]_vars

\* C14 witness: a pick-up was refused with INVENTORY_MAX items held; the item
\* is still on the floor under the player.
C14_Witness ==
    /\ hist.op = "g"
    /\ Len(inventory) = INVENTORY_MAX
    /\ inventory[INVENTORY_MAX].name = "sword"
    /\ \E i \in ItemsHere : objects[i].name = "scroll of lightning bolt"
    /\ log # <<>>
    /\ log[Len(log)][2] = "RED"

\* The monsters (entities with the Fighter and the AI capability) that are
\* in the Visibility Field and at a distance <= range of the player.
VisibleWithin(range) ==
    {m \in 2..Len(objects) :
        /\ IsSome(objects[m].fighter)
        /\ IsSome(objects[m].ai)
        /\ Pos(objects[m]) \in fov
        /\ DistSq(objects[PLAYER].x, objects[PLAYER].y,
                  objects[m].x, objects[m].y) <= range * range}

\* C19 as stated: a use of the scroll of lightning bolt is Cancelled, and
\* changes no entity and keeps the scroll, when no visible monster is at a
\* distance <= LIGHTNING_RANGE; otherwise it is UsedUp and one such monster
\* takes LIGHTNING_DAMAGE (it loses that many hp, or dies of it), every
\* other monster being left as it was.
C19_LightningStrike ==
    [][pc = "keys" /\ hist'.op = "i" /\ IsSome(hist'.use)
          /\ hist'.use[1].item = Some("Lightning") =>
           IF VisibleWithin(LIGHTNING_RANGE) = {}
           THEN /\ hist'.use[1].result = "Cancelled"
                /\ objects' = objects
                /\ inventory' = inventory
           ELSE /\ hist'.use[1].result = "UsedUp"
                /\ Len(inventory') = Len(inventory) - 1
                /\ \E m \in VisibleWithin(LIGHTNING_RANGE) :
                       /\ \A i \in (2..Len(objects)) \ {m} :
                              objects'[i] = objects[i]
                       /\ IF objects[m].fighter[1].hp > LIGHTNING_DAMAGE
                          THEN objects'[m] =
                                   [objects[m] EXCEPT !.fighter[1].hp =
                                                          @ - LIGHTNING_DAMAGE]
                          ELSE /\ ~IsSome(objects'[m].fighter)
                               /\ hist'.deaths[hist.oid[m]] = 1]_vars

\* C20: a use of the healing potion with the player's hp at the effective
\* max hp is Cancelled: no entity changes, the potion is kept and no turn is
\* taken.  Otherwise it is UsedUp: the potion leaves the inventory, the
\* player's hp becomes min(hp + HEAL_AMOUNT, effective max hp), and a turn
\* is taken.
C20_Heal ==
    [][pc = "keys" /\ hist'.op = "i" /\ IsSome(hist'.use)
          /\ hist'.use[1].item = Some("Heal") =>
           LET hp == objects[PLAYER].fighter[1].hp
               m == Effective(objects[PLAYER], inventory, "base_max_hp",
                              "max_hp_bonus")
           IN IF hp = m
              THEN /\ hist'.use[1].result = "Cancelled"
                   /\ objects' = objects
                   /\ inventory' = inventory
                   /\ player_action' = "DidnTakeTurn"
                   /\ pc' # "ai"
              ELSE /\ hist'.use[1].result = "UsedUp"
                   /\ objects' = [objects EXCEPT ![PLAYER].fighter[1].hp =
                                      IF hp + HEAL_AMOUNT < m
                                      THEN hp + HEAL_AMOUNT ELSE m]
                   /\ Len(inventory') = Len(inventory) - 1
                   /\ \A k \in 1..Len(inventory') :
                          inventory'[k].item # Some("Heal")
                   /\ player_action' = "TookTurn"]_vars

\* C20 witness: the potion was used up by a player at 1 hp of 100, who is at
\* 41 hp before any monster acts.
C20_Witness ==
    /\ hist.op = "i"
    /\ IsSome(hist.use)
    /\ hist.use[1].item = Some("Heal")
    /\ hist.use[1].result = "UsedUp"
    /\ objects[PLAYER].fighter[1].hp = 1 + HEAL_AMOUNT
    /\ Len(inventory) = 1

(***************************************************************************)
(* Properties of the Map Generator.                                        *)
(***************************************************************************)
\* Two rectangles, boundaries included, have a point in common.
Overlap(a, b) ==
    \E x \in a.x1..a.x2, y \in a.y1..a.y2 :
        x \in b.x1..b.x2 /\ y \in b.y1..b.y2

\* C15: at every point of the generation of a level, no two accepted rooms'
\* rectangles intersect, whatever rooms the attempts drew.
C15_RoomsDisjoint ==
    generation.phase # "idle" =>
        \A i, j \in 1..Len(generation.rooms) :
            i < j => ~Overlap(generation.rooms[i], generation.rooms[j])

\* C15 witness: a level generated with two accepted rooms.
C15_Witness ==
    /\ generation.phase = "done"
    /\ Len(generation.rooms) = 2
    /\ generation.attempts = MAX_ROOMS

\* C16: an iteration of a spawn loop of place_objects leaves the store as
\* it is or pushes one entity, a monster or an item, on a cell of the
\* interior of the room, whose tile is not blocked and on which no blocking
\* entity of the store stands at that time.
C16_SpawnUnblocked ==
    [][pc = "make_map" /\ generation.phase = "objects" =>
           /\ Len(objects') \in {Len(objects), Len(objects) + 1}
           /\ SubSeq(objects', 1, Len(objects)) = objects
           /\ Len(objects') = Len(objects) + 1 =>
                  LET e == objects'[Len(objects')]
                  IN /\ IsSome(e.ai) \/ IsSome(e.item)
                     /\ Pos(e) \in Interior(generation.room)
                     /\ ~map[Pos(e)].blocked
                     /\ \A k \in 1..Len(objects) :
                            objects[k].blocks => Pos(objects[k]) # Pos(e)]_vars

\* C16 witness: a monster was spawned in a room in whose interior the
\* player stands.
C16_Witness ==
    /\ generation.phase \in {"rooms", "objects"}
    /\ Len(objects) = 2
    /\ objects[2].name = "orc"
    /\ Pos(objects[2]) \in Interior(generation.room)
    /\ Pos(objects[PLAYER]) \in Interior(generation.room)

\* The indices of the stairs entities of the store.
StairsIn(objs) == {i \in 1..Len(objs) : objs[i].name = "stairs"}

\* C17: once an attempt was made a room is accepted, and after the
\* generation the player stands at the centre of the first accepted room
\* and the store holds exactly one stairs entity, always visible and not
\* blocking, at the centre of the last accepted room.
C17_StartAndStairs ==
    /\ generation.phase # "idle" /\ generation.attempts >= 1 =>
           generation.rooms # <<>>
    /\ generation.phase = "done" =>
           LET first == generation.rooms[1]
               last == generation.rooms[Len(generation.rooms)]
           IN /\ objects[PLAYER].name = "player"
              /\ objects[PLAYER].x = (first.x1 + first.x2) \div 2
              /\ objects[PLAYER].y = (first.y1 + first.y2) \div 2
              /\ StairsIn(objects) = {Len(objects)}
              /\ objects[Len(objects)].always_visible
              /\ ~objects[Len(objects)].blocks
              /\ objects[Len(objects)].x = (last.x1 + last.x2) \div 2
              /\ objects[Len(objects)].y = (last.y1 + last.y2) \div 2

\* C17 witness: a level generated with two rooms and an item between the
\* player and the stairs in the store, the stairs away from the player.
C17_Witness ==
    /\ generation.phase = "done"
    /\ Len(generation.rooms) = 2
    /\ Len(objects) = 3
    /\ IsSome(objects[2].item)
    /\ Pos(objects[3]) # Pos(objects[PLAYER])

\* C30 as stated: every iteration of a spawn loop of place_objects places
\* an entity, on a cell of the room that was not blocked, so that a room
\* gets as many monsters and as many items as were drawn for it.
C30_SpawnResampled ==
    [][pc = "make_map" /\ generation.phase = "objects" =>
           /\ Len(objects') = Len(objects) + 1
           /\ Pos(objects'[Len(objects')]) \in Interior(generation.room)
           /\ ~is_blocked(objects'[Len(objects')].x, objects'[Len(objects')].y,
                          map, objects)]_vars

\* The pairs of indices of blocking entities of a store on one cell.
SharedCells(objs) ==
    {p \in (1..Len(objs)) \X (1..Len(objs)) :
        /\ p[1] < p[2]
        /\ objs[p[1]].blocks /\ objs[p[2]].blocks
        /\ Pos(objs[p[1]]) = Pos(objs[p[2]])}

\* C31 as stated: in every state, the state after make_map has set the
\* player to the starting position included, no two blocking entities (the
\* player, the living monsters) stand on the same cell.
C31_NoSharedCell == SharedCells(objects) = {}

(***************************************************************************)
(* Properties of the spells and of melee.                                  *)
(***************************************************************************)
\* The entities with the Fighter capability at a squared distance <=
\* FIREBALL_RADIUS^2 of a tile.
Burned(tile) ==
    {k \in 1..Len(objects) :
        /\ IsSome(objects[k].fighter)
        /\ DistSq(objects[k].x, objects[k].y, tile[1], tile[2])
               <= FIREBALL_RADIUS * FIREBALL_RADIUS}

\* C21: a cancelled selection of the fireball's tile is Cancelled, changes
\* no entity and keeps the scroll.  A selected tile is UsedUp, whether or
\* not an entity is hit: the scroll leaves the inventory, every Fighter
\* within FIREBALL_RADIUS of the tile, the player included, loses
\* FIREBALL_DAMAGE hp (a monster that has no more than that dies of it), and
\* every other entity is left as it was (the player but for the xp gained).
C21_Fireball ==
    [][pc = "keys" /\ hist'.op = "i" /\ IsSome(hist'.use)
          /\ hist'.use[1].item = Some("Fireball") =>
           LET u == hist'.use[1]
           IN IF ~IsSome(u.target)
              THEN /\ u.result = "Cancelled"
                   /\ objects' = objects
                   /\ inventory' = inventory
              ELSE /\ u.result = "UsedUp"
                   /\ inventory' = RemoveAt(inventory, u.id)
                   /\ Len(objects') = Len(objects)
                   /\ \A k \in 1..Len(objects) :
                          LET o == objects[k]
                              n == objects'[k]
                          IN IF k \in Burned(u.target[1])
                             THEN IF k = PLAYER
                                  THEN /\ n.fighter[1].hp =
                                              o.fighter[1].hp - FIREBALL_DAMAGE
                                       /\ n.alive = (n.fighter[1].hp > 0)
                                       /\ Pos(n) = Pos(o)
                                  ELSE IF o.fighter[1].hp > FIREBALL_DAMAGE
                                       THEN n = [o EXCEPT !.fighter[1].hp =
                                                     @ - FIREBALL_DAMAGE]
                                       ELSE /\ ~IsSome(n.fighter)
                                            /\ ~n.alive
                                            /\ hist'.deaths[hist.oid[k]] = 1
                             ELSE IF k = PLAYER
                                  THEN n = [o EXCEPT !.fighter[1].xp =
                                                n.fighter[1].xp]
                                  ELSE n = o]_vars

\* C21 witness: a fireball aimed at the east end of the room killed the
\* troll and left the orc and the player, both further than
\* FIREBALL_RADIUS from the tile, with the hp they had.
C21_Witness ==
    /\ hist.op = "i"
    /\ IsSome(hist.use)
    /\ hist.use[1].item = Some("Fireball")
    /\ hist.use[1].result = "UsedUp"
    /\ Len(objects) = 4
    /\ ~IsSome(objects[3].fighter)
    /\ IsSome(objects[2].fighter)
    /\ objects[2].fighter[1].hp = 2
    /\ objects[PLAYER].fighter[1].hp = 20
    /\ \A k \in 1..Len(inventory) : inventory[k].item # Some("Fireball")

\* C22: a cancelled targeting of the scroll of confusion is Cancelled,
\* changes no entity (so no AI) and keeps the scroll.  A selected target is
\* a Fighter other than the player, on a tile of the Visibility Field within
\* CONFUSE_RANGE of the player; the use is UsedUp, the scroll leaves the
\* inventory, and the target's AI becomes Confused with the AI it had as
\* previous_ai and CONFUSE_NUM_TURNS turns, nothing else changing.
C22_Confuse ==
    [][pc = "keys" /\ hist'.op = "i" /\ IsSome(hist'.use)
          /\ hist'.use[1].item = Some("Confuse") =>
           LET u == hist'.use[1]
           IN IF ~IsSome(u.target)
              THEN /\ u.result = "Cancelled"
                   /\ objects' = objects
                   /\ inventory' = inventory
              ELSE LET m == u.target[1]
                   IN /\ m # PLAYER
                      /\ IsSome(objects[m].fighter)
                      /\ IsSome(objects[m].ai)
                      /\ Pos(objects[m]) \in fov
                      /\ DistSq(objects[PLAYER].x, objects[PLAYER].y,
                                objects[m].x, objects[m].y)
                             <= CONFUSE_RANGE * CONFUSE_RANGE
                      /\ u.result = "UsedUp"
                      /\ inventory' = RemoveAt(inventory, u.id)
                      /\ objects' = [objects EXCEPT ![m].ai =
                             Some([tag |-> "Confused",
                                   previous_ai |-> objects[m].ai[1],
                                   num_turns |-> CONFUSE_NUM_TURNS])]]_vars

\* C22 witness: the second scroll of confusion was read at a monster that
\* was already Confused, whose AI now wraps that confusion.
C22_Witness ==
    /\ hist.op = "i"
    /\ IsSome(hist.use)
    /\ hist.use[1].item = Some("Confuse")
    /\ hist.use[1].result = "UsedUp"
    /\ \E m \in 2..Len(objects) :
           /\ hist.use[1].target = Some(m)
           /\ IsSome(objects[m].ai)
           /\ objects[m].ai[1].tag = "Confused"
           /\ objects[m].ai[1].num_turns = CONFUSE_NUM_TURNS
           /\ objects[m].ai[1].previous_ai.tag = "Confused"

\* The xp values of the monsters killed in the step, summed.
KilledXp ==
    SumSeq([k \in 1..Len(objects) |->
               IF k \in Killed THEN objects[k].fighter[1].xp ELSE 0])

\* C24: a move, an attack or a use of an item by the player adds to the
\* player's xp the xp values of the monsters it killed, summed, and nothing
\* else (not the player's own value when the player dies of the fireball);
\* the turn of a monster leaves the player's xp as it is.
C24_XpOfKills ==
    [][/\ pc = "keys" =>
              objects'[PLAYER].fighter[1].xp =
                  objects[PLAYER].fighter[1].xp + KilledXp
       /\ pc = "ai" =>
              objects'[PLAYER].fighter[1].xp = objects[PLAYER].fighter[1].xp]_vars

\* C24 witness: a fireball killed the orc, the troll and the player, who
\* has the 10 xp of the start and the 35 and 100 of the two monsters.
C24_Witness ==
    /\ hist.op = "i"
    /\ IsSome(hist.use)
    /\ hist.use[1].item = Some("Fireball")
    /\ ~objects[PLAYER].alive
    /\ objects[2].name = RemainsOf("orc")
    /\ objects[3].name = RemainsOf("troll")
    /\ objects[PLAYER].fighter[1].xp = 10 + 35 + 100

(***************************************************************************)
(* Properties of leveling in play.                                         *)
(***************************************************************************)
\* The player's xp is below the threshold of the player's level.
BelowThreshold ==
    objects[PLAYER].fighter[1].xp
        < LEVEL_UP_BASE + objects[PLAYER].level * LEVEL_UP_FACTOR

\* C26: the xp of the player is never negative; the head of an iteration
\* of play_game raises the level by one, and takes the threshold of the
\* level it raises from the xp, if the xp covers that threshold, and leaves
\* level and xp alone otherwise, and nothing else changes the level; a
\* player whose xp covers the threshold gets below the threshold of the
\* level reached.
C26_LevelUpsResolved ==
    /\ [](objects[PLAYER].fighter[1].xp >= 0)
    /\ [][LET xp == objects[PLAYER].fighter[1].xp
              level == objects[PLAYER].level
          IN IF pc = "top" /\ ~BelowThreshold
             THEN /\ objects'[PLAYER].level = level + 1
                  /\ objects'[PLAYER].fighter[1].xp =
                         xp - (LEVEL_UP_BASE + level * LEVEL_UP_FACTOR)
             ELSE /\ objects'[PLAYER].level = level
                  /\ pc = "top" =>
                         objects'[PLAYER].fighter[1].xp = xp]_vars
    /\ ~BelowThreshold ~> BelowThreshold

\* C26 witness: the player who started with 900 xp on level 1 is on level 3
\* with 50 xp, two iterations having taken 350 and 500.
C26_Witness ==
    /\ objects[PLAYER].level = 3
    /\ objects[PLAYER].fighter[1].xp = 900 - 350 - 500
    /\ BelowThreshold
    /\ hist.op = "prologue"

(***************************************************************************)
(* Properties of the Basic AI.                                             *)
(***************************************************************************)
\* The step of one axis toward a target d cells away on that axis, at a
\* squared distance dsq: d / sqrt(dsq) rounded to the nearest integer.
AxisStep(d, dsq) ==
    IF 4 * d * d >= dsq THEN (IF d > 0 THEN 1 ELSE -1) ELSE 0

\* The cell is a wall or holds a blocking entity.
CellBlocked(c) ==
    \/ map[c].blocked
    \/ \E k \in 1..Len(objects) : objects[k].blocks /\ Pos(objects[k]) = c

\* What the turn of the Basic monster at ai_id has to do.
BasicCase ==
    LET mo == objects[ai_id]
        pl == objects[PLAYER]
    IN IF Pos(mo) \notin fov THEN "unseen"
       ELSE IF DistSq(mo.x, mo.y, pl.x, pl.y) >= 4 THEN "step"
       ELSE IF IsSome(pl.fighter) /\ pl.fighter[1].hp > 0 THEN "attack"
       ELSE "spare"

\* The cell the Basic monster at ai_id steps to.
BasicDest ==
    LET mo == objects[ai_id]
        pl == objects[PLAYER]
        dsq == DistSq(mo.x, mo.y, pl.x, pl.y)
    IN <<mo.x + AxisStep(pl.x - mo.x, dsq), mo.y + AxisStep(pl.y - mo.y, dsq)>>

\* C28: the turn of a monster whose AI is Basic leaves the AI Basic.  It
\* changes nothing when the monster's tile is outside the Visibility Field.
\* Inside it, at a distance >= 2 of the player, the monster and nothing
\* else moves, by at most one cell per axis toward the player, and stays
\* where it is if that cell is a wall or holds a blocking entity; at a
\* distance < 2 it attacks a player with hp > 0, no entity moving and no
\* entity but the two changing, and does nothing to a player with hp <= 0.
C28_BasicAi ==
    [][pc = "ai" /\ ai_id <= ai_len /\ objects[ai_id].ai = Some(AiBasic) =>
           /\ objects'[ai_id].ai \in {Some(AiBasic), None}
           /\ objects'[ai_id].ai = None => ~IsSome(objects'[ai_id].fighter)
           /\ CASE BasicCase = "unseen" ->
                       objects' = objects /\ log' = log
                [] BasicCase = "step" ->
                       /\ log' = log
                       /\ objects' =
                              IF CellBlocked(BasicDest) THEN objects
                              ELSE [objects EXCEPT ![ai_id].x = BasicDest[1],
                                                   ![ai_id].y = BasicDest[2]]
                       /\ Abs(BasicDest[1] - objects[ai_id].x) <= 1
                       /\ Abs(BasicDest[2] - objects[ai_id].y) <= 1
                       /\ DistSq(BasicDest[1], BasicDest[2],
                                 objects[PLAYER].x, objects[PLAYER].y)
                              < DistSq(objects[ai_id].x, objects[ai_id].y,
                                       objects[PLAYER].x, objects[PLAYER].y)
                [] BasicCase = "attack" ->
                       /\ log' # log
                       /\ \A k \in 1..Len(objects) :
                              /\ Pos(objects'[k]) = Pos(objects[k])
                              /\ k \notin {ai_id, PLAYER} =>
                                     objects'[k] = objects[k]
                       /\ objects'[PLAYER].fighter[1].hp
                              <= objects[PLAYER].fighter[1].hp
                [] OTHER ->
                       objects' = objects /\ log' = log]_vars

\* C28 witness: a Basic monster has just taken its turn next to a player
\* another monster had killed in the same pass, and left the player as the
\* player was.
C28_Witness ==
    /\ hist.op = "ai"
    /\ Len(hist.acted) >= 2
    /\ ~objects[PLAYER].alive
    /\ objects[PLAYER].fighter[1].hp <= 0
    /\ \E k \in 2..Len(objects) :
           /\ hist.acted[Len(hist.acted)] = hist.oid[k]
           /\ objects[k].ai = Some(AiBasic)
           /\ DistSq(objects[k].x, objects[k].y,
                     objects[PLAYER].x, objects[PLAYER].y) < 4
    /\ log[Len(log)][1] = "You died!"

(***************************************************************************)
(* Properties of the level tables of place_objects.                        *)
(***************************************************************************)
\* The value of a step table at a level: that of the entry with the
\* greatest index among those whose level is <= the level, 0 without one.
LastEntryValue(table, level) ==
    IF \A k \in 1..Len(table) : table[k][1] > level
    THEN 0
    ELSE LET last == CHOOSE k \in 1..Len(table) :
                         /\ table[k][1] <= level
                         /\ \A j \in (k + 1)..Len(table) : table[j][1] > level
         IN table[last][2]

\* The level from which place_objects spawns an entity of a name.
FirstLevelOf(name) ==
    CASE name = "troll" -> 3
      [] name = "scroll of confusion" -> 2
      [] name = "scroll of lightning bolt" -> 4
      [] name = "sword" -> 4
      [] name = "scroll of fireball" -> 6
      [] name = "shield" -> 8
      [] OTHER -> 1

\* C29: from_dungeon_level is the value of the last entry of the table
\* whose level is <= the dungeon level, and 0 without one; the largest
\* number of monsters of a room is 2 on the levels 1-3, 3 on 4-5 and 5 from
\* 6, that of items 1 on the levels 1-3 and 2 from 4; and no entity is
\* spawned below the level its weight becomes positive at (3 for the troll,
\* 2 for Confuse, 4 for Lightning and Sword, 6 for Fireball, 8 for Shield).
C29_LevelTables ==
    LET L == dungeon_level
    IN /\ \A t \in {<<<<1, 2>>, <<4, 3>>, <<6, 5>>>>,
                     <<<<3, 15>>, <<5, 30>>, <<7, 60>>>>,
                     <<<<1, 1>>, <<4, 2>>>>, <<<<8, 15>>>>} :
              from_dungeon_level(t, L) = LastEntryValue(t, L)
       /\ max_monsters(L) = (IF L <= 3 THEN 2 ELSE IF L <= 5 THEN 3 ELSE 5)
       /\ max_items(L) = (IF L <= 3 THEN 1 ELSE 2)
       /\ generation.monsters_left <= max_monsters(L)
       /\ generation.items_left <= max_items(L)
       /\ \A k \in 2..Len(objects) : L >= FirstLevelOf(objects[k].name)

\* C29 witness: on dungeon level 8, the first with shields, the room got a
\* shield.
C29_Witness ==
    /\ dungeon_level = 8
    /\ generation.phase = "done"
    /\ Len(objects) = 3
    /\ objects[2].name = "shield"
    /\ max_monsters(dungeon_level) = 5

(***************************************************************************)
(* Properties of the dead player.                                          *)
(***************************************************************************)
\* C32 as stated: once the player is dead, no step of the session (a new
\* game and a load begin another one) makes the player alive again or
\* changes the player's level, hp, xp or base stats; no level-up is applied
\* to a dead player.
C32_DeadPlayerFrozen ==
    [][~objects[PLAYER].alive /\ hist'.op \notin {"new", "load"} =>
           /\ ~objects'[PLAYER].alive
           /\ objects'[PLAYER].level = objects[PLAYER].level
           /\ objects'[PLAYER].fighter = objects[PLAYER].fighter]_vars

(***************************************************************************)
(* Properties of the positions on a generated level.                       *)
(***************************************************************************)
\* The outermost ring of the grid.
Ring ==
    {c \in Cells : c[1] \in {0, MAP_WIDTH - 1} \/ c[2] \in {0, MAP_HEIGHT - 1}}

\* The cells is_blocked can be asked about for an entity that moves: the
\* cell of the entity and the eight around it.
Around(o) == {<<o.x + dx, o.y + dy>> : dx \in -1..1, dy \in -1..1}

\* C33: on a generated level, after any moves of the player and of the
\* monsters, Basic or Confused, every entity stands on a cell of the grid
\* whose tile is not blocked; the outermost ring of the grid is wall, so
\* that every cell is_blocked is asked about, one step away from an entity
\* on either axis, is a cell of the grid.
C33_InsideGrid ==
    /\ \A k \in 1..Len(objects) :
           /\ Pos(objects[k]) \in Cells
           /\ ~map[Pos(objects[k])].blocked
    /\ \A c \in Ring : map[c].blocked
    /\ \A k \in 1..Len(objects) : Around(objects[k]) \subseteq Cells

\* C33 witness: the player left the starting position and stands next to
\* the ring, and the Confused orc, after two random steps, stands in the
\* corner of the grid next to the east and south sides of the ring.
C33_Witness ==
    /\ Pos(objects[PLAYER]) # center(CornerRoom)
    /\ Around(objects[PLAYER]) \cap Ring # {}
    /\ hist.conf[hist.oid[2]].walks >= 2
    /\ Pos(objects[2]) = <<MAP_WIDTH - 2, MAP_HEIGHT - 2>>

(***************************************************************************)
(* Properties of the player's hp.                                          *)
(***************************************************************************)
\* C34: in every state the player's hp is at most the player's effective
\* max hp, base_max_hp plus the max-hp bonuses of the equipped items,
\* whatever healing potions, Constitution level-ups, rests on the stairs
\* and equips, dequips and drops of equipment came before.
C34_HpAtMostMax ==
    IsSome(objects[PLAYER].fighter) =>
        objects[PLAYER].fighter[1].hp <= PlayerMaxHp

\* C34 witness: a healing potion was used up by a player less than
\* HEAL_AMOUNT below the effective max hp, and the hp stands at it.
C34_Witness ==
    /\ IsSome(hist.use)
    /\ hist.use[1].item = Some("Heal")
    /\ hist.use[1].result = "UsedUp"
    /\ objects[PLAYER].fighter[1].hp = PlayerMaxHp

(***************************************************************************)
(* Properties of the Visibility Field on a new level.                      *)
(***************************************************************************)
\* The player has just descended: handle_keys returned from next_level (a
\* stairs key on a level the player has seen leaves explored cells, the new
\* map has none) and the next iteration of play_game has not begun.
Descended ==
    /\ pc = "top"
    /\ hist.op = "s"
    /\ \A c \in Cells : ~map[c].explored

\* C35 as stated: after the player descended, the step that follows, which
\* comes before the next key is handled and before any monster takes a
\* turn, leaves as Visibility Field the field computed on the new map from
\* the player's new position, also when the starting position of the new
\* level has the coordinates of the stairs the player left.
C35_FovAfterDescent ==
    [][Descended =>
           fov' = compute_fov(map', objects'[PLAYER].x,
                              objects'[PLAYER].y)]_vars

(***************************************************************************)
(* Properties of the corridors of make_map.                                *)
(***************************************************************************)
\* The unblocked cells one step along an axis from a cell of a set.
Beside(m, cells) ==
    {c \in Cells \ cells :
        /\ ~m[c].blocked
        /\ \E d \in cells : Abs(c[1] - d[1]) + Abs(c[2] - d[2]) = 1}

\* The cells a walk over unblocked tiles reaches from the cells of a set,
\* themselves unblocked.
RECURSIVE Reach(_, _)
Reach(m, cells) ==
    LET more == Beside(m, cells)
    IN IF more = {} THEN cells ELSE Reach(m, cells \cup more)

\* C36: at every point of the generation of a level the centre of every
\* accepted room is an unblocked tile that a walk over unblocked tiles
\* reaches from the centre of the first accepted room, each room being
\* joined to the room accepted before it by a horizontal and a vertical
\* corridor in either order; on the generated level the player's cell and
\* the stairs are among the cells reached, so that such a walk leads from
\* the one to the other.
C36_RoomsConnected ==
    generation.phase \in {"rooms", "objects", "done"}
       /\ generation.rooms # <<>> =>
        LET reached == Reach(map, {c \in {center(generation.rooms[1])} :
                                      ~map[c].blocked})
        IN /\ \A k \in 1..Len(generation.rooms) :
                  center(generation.rooms[k]) \in reached
           /\ generation.phase = "done" =>
                  /\ Pos(objects[PLAYER]) \in reached
                  /\ Pos(objects[Len(objects)]) \in reached

\* C36 witness: a level generated with two rooms whose centres share
\* neither a row nor a column, the stairs in the second.
C36_Witness ==
    /\ generation.phase = "done"
    /\ Len(generation.rooms) = 2
    /\ objects[Len(objects)].name = "stairs"
    /\ objects[Len(objects)].x # objects[PLAYER].x
    /\ objects[Len(objects)].y # objects[PLAYER].y

(***************************************************************************)
(* Properties of the Confused AI.                                          *)
(***************************************************************************)
\* The entity at an index of the store is Confused.
IsConfused(o) == IsSome(o.ai) /\ o.ai[1].tag = "Confused"

\* C37: an AI evaluation of a Confused entity is no attack.  It changes no
\* other entity and leaves the store's order, the inventory and the map as
\* they are; of the entity itself it changes the AI and the position only,
\* so no hp, xp or liveness.  With remaining turns >= 0 the entity stays
\* where it is or goes to a cell at most one step away on each axis that
\* was not blocked, and stays Confused with the same previous state, one
\* turn less remaining, also when that previous state is itself a Confused
\* state (confusion applied to a Confused entity); with no turn remaining
\* it does not move and takes the previous state as its AI.
C37_ConfusedNeverAttacks ==
    [][pc = "ai" /\ hist'.op = "ai" /\ IsConfused(objects[ai_id]) =>
           LET before == objects[ai_id]
               after == objects'[ai_id]
               ai == before.ai[1]
           IN /\ Len(objects') = Len(objects)
              /\ \A k \in 1..Len(objects) :
                     /\ k # ai_id => objects'[k] = objects[k]
                     /\ objects'[k].fighter = objects[k].fighter
                     /\ objects'[k].alive = objects[k].alive
              /\ after = [before EXCEPT !.x = after.x, !.y = after.y,
                                        !.ai = after.ai]
              /\ inventory' = inventory
              /\ map' = map
              /\ Abs(after.x - before.x) <= 1
              /\ Abs(after.y - before.y) <= 1
              /\ Pos(after) # Pos(before) =>
                     ~is_blocked(after.x, after.y, map, objects)
              /\ IF ai.num_turns >= 0
                 THEN after.ai = Some(AiConfused(ai.previous_ai,
                                                 ai.num_turns - 1))
                 ELSE /\ after.ai = Some(ai.previous_ai)
                      /\ Pos(after) = Pos(before)]_vars

\* C37 witness: a monster confused while it was Confused took a turn next
\* to the player and is Confused still, the earlier confusion as its
\* previous state, with one turn less remaining.
C37_Witness ==
    /\ hist.op = "ai"
    /\ \E m \in 2..Len(objects) :
           /\ hist.acted # <<>>
           /\ hist.acted[Len(hist.acted)] = hist.oid[m]
           /\ IsConfused(objects[m])
           /\ objects[m].ai[1].num_turns = CONFUSE_NUM_TURNS - 1
           /\ objects[m].ai[1].previous_ai.tag = "Confused"
           /\ DistSq(objects[PLAYER].x, objects[PLAYER].y,
                     objects[m].x, objects[m].y) <= 2

====
